---- MODULE Spec2Model ----
(***************************************************************************)
(* Verification model of the sunu-sav payment core.                        *)
(*                                                                         *)
(*  Part I  - the idempotent pay endpoint                                  *)
(*            (backend/app/routers/lightning_enhanced.py, pay_invoice)     *)
(*            over the payment_attempts table.                             *)
(*  Part II - the cycle payout (backend/monetization/services/payout.py,   *)
(*            process_payout) driven by the celery tasks of                *)
(*            backend/monetization/tasks.py.                               *)
(*                                                                         *)
(* Every request handler is cut at the points where it blocks on the       *)
(* database commit or on the payment network, so that the interleavings of *)
(* concurrent handlers (and a process crash between two such points) are   *)
(* the ones the deployed program has.                                      *)
(***************************************************************************)
EXTENDS Integers, Sequences, FiniteSets, TLC

(***************************************************************************)
(* Bounds of the model.                                                    *)
(***************************************************************************)
\* concurrent request handlers of the pay endpoint
NumHandlers == 2
\* pay_invoice calls started in one behaviour
MaxCalls == 3

Handlers == 1..NumHandlers
\* idempotency keys the clients choose among
ClientKeys == {"client_key"}
\* the keys uuid4() makes for calls that send none, in the order it makes
\* them: each is fresh
UuidKeys == <<"uuid_key">>
AllKeys == ClientKeys \cup {UuidKeys[i] : i \in 1..Len(UuidKeys)}
\* payload.idempotency_key is None
NoKey == "no_key"

(***************************************************************************)
(* Part I - pay_invoice                                                    *)
(***************************************************************************)
VARIABLES
    attempts,     \* payment_attempts table (committed rows), by id
    pc,           \* position of each handler inside pay_invoice
    req,          \* idempotency_key and invoice_raw of the handler's call
    seen,         \* existing_attempt as read at line 61: "absent" or its status
    result,       \* the HTTP answer of the handler's last finished call
    netSubmits,   \* submissions made to the payment network, by key
    started,      \* pay_invoice calls started so far
    uuidCount     \* uuid4() keys generated so far

gwVars == <<attempts, pc, req, seen, result, netSubmits, started, uuidCount>>

\* payload.invoice as sent by the client: with or without "lightning:" prefix
PayloadInvoices ==
    { [prefix |-> p, body |-> b] : p \in BOOLEAN, b \in {"lnbc_a", "lnbc_b"} }

\* lines 52-55: strip, and drop an optional "lightning:" prefix
InvoiceRaw(payload) == payload.body

\* what a successful lnd.pay_invoice returns: preimage and fee_sat
LndSuccessResults ==
    { [preimage |-> "pre_1", fee_sat |-> 0], [preimage |-> "pre_2", fee_sat |-> 1] }
NoFee == -1

\* a row that does not exist
NoRow ==
    [status |-> "absent", invoice |-> "none", preimage |-> "none",
     fee_sat |-> NoFee, error_message |-> "none"]

NoResult ==
    [kind |-> "none", preimage |-> "none", fee_sat |-> NoFee, cached |-> FALSE]

\* a cached answer that does not carry the stored proof and fee
CachedResponse_Blank(row) ==
    [kind |-> "ok", preimage |-> "none", fee_sat |-> NoFee, cached |-> TRUE]

\* lines 65-71: the answer built from a stored success row
CachedResponse(row) ==
    [kind |-> "ok", preimage |-> row.preimage, fee_sat |-> row.fee_sat,
     cached |-> TRUE]

\* a handler that lets a pending key through like a failed one
BeginOutcome_PendingAdmitted(status) ==
    CASE status = "success" -> "cached"
      [] OTHER              -> "admit"

\* lines 63-76: what the handler does with the row it read
BeginOutcome(status) ==
    CASE status = "success" -> "cached"
      [] status = "pending" -> "conflict"
      [] OTHER              -> "admit"

\* lines 92-96: the row a first call inserts
NewPendingRow(invoice) ==
    [status |-> "pending", invoice |-> invoice, preimage |-> "none",
     fee_sat |-> NoFee, error_message |-> "none"]

\* a retry that stores the new invoice but forgets to reset the status
RefreshedRow_StatusKept(row, invoice) ==
    [row EXCEPT !.invoice = invoice]

\* lines 88-89: the existing row refreshed for a retry
RefreshedRow(row, invoice) ==
    [row EXCEPT !.status = "pending", !.invoice = invoice]

\* lines 57-58: payload.idempotency_key or str(uuid.uuid4())
IdempotencyKey(payloadKey) ==
    IF payloadKey # NoKey THEN payloadKey ELSE UuidKeys[uuidCount + 1]

\* lines 52-76: read the row of the key and answer from it, or go on
Begin(h) ==
    /\ pc[h] = "idle"
    /\ started < MaxCalls
    /\ \E payloadKey \in ClientKeys \cup {NoKey}, payload \in PayloadInvoices :
          /\ payloadKey = NoKey => uuidCount < Len(UuidKeys)
          /\ LET key == IdempotencyKey(payloadKey)
                 row == attempts[key]
                 outcome == BeginOutcome(row.status)
             IN  /\ req' = [req EXCEPT ![h] = [key |-> key, invoice |-> InvoiceRaw(payload)]]
                 /\ uuidCount' = IF payloadKey = NoKey THEN uuidCount + 1 ELSE uuidCount
                 /\ seen' = [seen EXCEPT ![h] = row.status]
                 /\ CASE outcome = "cached" ->
                           /\ result' = [result EXCEPT ![h] = CachedResponse(row)]
                           /\ pc' = [pc EXCEPT ![h] = "done"]
                      [] outcome = "conflict" ->
                           /\ result' = [result EXCEPT ![h] =
                                           [NoResult EXCEPT !.kind = "conflict409"]]
                           /\ pc' = [pc EXCEPT ![h] = "done"]
                      [] OTHER ->
                           /\ result' = [result EXCEPT ![h] = NoResult]
                           /\ pc' = [pc EXCEPT ![h] = "admitted"]
    /\ started' = started + 1
    /\ UNCHANGED <<attempts, netSubmits>>

\* lines 86-99: write the pending row and commit.  An INSERT of a key that
\* another handler has inserted since line 61 violates the primary key: the
\* commit raises outside the try block and the call ends with a 500.
CommitPending(h) ==
    /\ pc[h] = "admitted"
    /\ LET key == req[h].key IN
       IF seen[h] = "absent" /\ attempts[key].status # "absent"
       THEN /\ result' = [result EXCEPT ![h] = [NoResult EXCEPT !.kind = "integrity500"]]
            /\ pc' = [pc EXCEPT ![h] = "done"]
            /\ UNCHANGED attempts
       ELSE /\ attempts' = [attempts EXCEPT ![key] =
                              IF seen[h] = "absent"
                              THEN NewPendingRow(req[h].invoice)
                              ELSE RefreshedRow(attempts[key], req[h].invoice)]
            /\ pc' = [pc EXCEPT ![h] = "committed"]
            /\ UNCHANGED result
    /\ UNCHANGED <<req, seen, netSubmits, started, uuidCount>>

\* line 103 (lnd_client.py line 89): the request goes out to the network
Submit(h) ==
    /\ pc[h] = "committed"
    /\ pc' = [pc EXCEPT ![h] = "inflight"]
    /\ netSubmits' = [netSubmits EXCEPT ![req[h].key] = @ + 1]
    /\ UNCHANGED <<attempts, req, seen, result, started, uuidCount>>

\* lines 106-125: the network reports success
LndSuccess(h) ==
    /\ pc[h] = "inflight"
    /\ \E res \in LndSuccessResults :
          /\ attempts' = [attempts EXCEPT ![req[h].key] =
                            [@ EXCEPT !.status = "success", !.preimage = res.preimage,
                                      !.fee_sat = res.fee_sat, !.error_message = "none"]]
          /\ result' = [result EXCEPT ![h] =
                          [kind |-> "ok", preimage |-> res.preimage,
                           fee_sat |-> res.fee_sat, cached |-> FALSE]]
    /\ pc' = [pc EXCEPT ![h] = "done"]
    /\ UNCHANGED <<req, seen, netSubmits, started, uuidCount>>

\* lines 111-115: the network declines; the row is committed as failed
LndDecline(h) ==
    /\ pc[h] = "inflight"
    /\ attempts' = [attempts EXCEPT ![req[h].key] =
                      [@ EXCEPT !.status = "failed", !.error_message = "reason"]]
    /\ pc' = [pc EXCEPT ![h] = "declined"]
    /\ UNCHANGED <<req, seen, result, netSubmits, started, uuidCount>>

\* lines 126-129 and 139-146: the HTTPException(400) raised inside the try
\* block is caught by `except Exception`, which writes failed again and
\* answers 500
DeclineHandler(h) ==
    /\ pc[h] = "declined"
    /\ attempts' = [attempts EXCEPT ![req[h].key] =
                      [@ EXCEPT !.status = "failed",
                                !.error_message = "http_exception"]]
    /\ result' = [result EXCEPT ![h] = [NoResult EXCEPT !.kind = "internal500"]]
    /\ pc' = [pc EXCEPT ![h] = "done"]
    /\ UNCHANGED <<req, seen, netSubmits, started, uuidCount>>

\* the status written by the LndClientError handler, line 133
LndErrorStatus == "failed"

\* lines 131-138: transport-level error of the network call
LndError(h) ==
    /\ pc[h] = "inflight"
    /\ attempts' = [attempts EXCEPT ![req[h].key] =
                      [@ EXCEPT !.status = LndErrorStatus,
                                !.error_message = "lnd_error"]]
    /\ result' = [result EXCEPT ![h] = [NoResult EXCEPT !.kind = "lnd502"]]
    /\ pc' = [pc EXCEPT ![h] = "done"]
    /\ UNCHANGED <<req, seen, netSubmits, started, uuidCount>>

NoReq == [key |-> NoKey, invoice |-> "none"]

\* the process dies inside a call: the handler's locals are lost, the
\* committed rows stay
Crash(h) ==
    /\ pc[h] \in {"admitted", "committed", "inflight", "declined"}
    /\ pc' = [pc EXCEPT ![h] = "idle"]
    /\ req' = [req EXCEPT ![h] = NoReq]
    /\ seen' = [seen EXCEPT ![h] = "absent"]
    /\ result' = [result EXCEPT ![h] = NoResult]
    /\ UNCHANGED <<attempts, netSubmits, started, uuidCount>>

\* the answer has been sent: the handler is free for the next request
Return(h) ==
    /\ pc[h] = "done"
    /\ pc' = [pc EXCEPT ![h] = "idle"]
    /\ req' = [req EXCEPT ![h] = NoReq]
    /\ seen' = [seen EXCEPT ![h] = "absent"]
    /\ result' = [result EXCEPT ![h] = NoResult]
    /\ UNCHANGED <<attempts, netSubmits, started, uuidCount>>

GwInit ==
    /\ attempts = [k \in AllKeys |-> NoRow]
    /\ pc = [h \in Handlers |-> "idle"]
    /\ req = [h \in Handlers |-> NoReq]
    /\ seen = [h \in Handlers |-> "absent"]
    /\ result = [h \in Handlers |-> NoResult]
    /\ netSubmits = [k \in AllKeys |-> 0]
    /\ started = 0
    /\ uuidCount = 0

(***************************************************************************)
(* Part II - fee calculation (backend/monetization/services/fee.py)        *)
(***************************************************************************)
\* fee.py lines 9-14; the Decimal fractions are kept as integers over 100
\* (the percent over 10000)
BASE_FEE_PERCENT == [num |-> 1, den |-> 100]
VERIFIED_GROUP_DISCOUNT == 50
RECURRING_USER_DISCOUNT == 75
COMMUNITY_FUND_SHARE == 20
PARTNER_CASHOUT_SHARE == 30
MINIMUM_FEE_SATS == 1

Max(a, b) == IF a >= b THEN a ELSE b

\* fee.py lines 58, 69, 74: quantize(Decimal('1.'), rounding=ROUND_DOWN) of
\* the fraction num/den (den > 0): rounds toward zero
RoundDown(num, den) ==
    IF num >= 0 THEN num \div den ELSE -((-num) \div den)

\* discounts that are added to the percent instead of scaling it
Discounted_Surcharge(fee_pct, group_verified, user_recurring) ==
    LET afterGroup == IF group_verified
                      THEN [num |-> fee_pct.num * (100 + VERIFIED_GROUP_DISCOUNT),
                            den |-> fee_pct.den * 100]
                      ELSE fee_pct
    IN  IF user_recurring
        THEN [num |-> afterGroup.num * (100 + RECURRING_USER_DISCOUNT),
              den |-> afterGroup.den * 100]
        ELSE afterGroup

\* fee.py lines 48-55: the discounts applied to a percent, as a fraction
Discounted(fee_pct, group_verified, user_recurring) ==
    LET afterGroup == IF group_verified
                      THEN [num |-> fee_pct.num * VERIFIED_GROUP_DISCOUNT,
                            den |-> fee_pct.den * 100]
                      ELSE fee_pct
    IN  IF user_recurring
        THEN [num |-> afterGroup.num * RECURRING_USER_DISCOUNT,
              den |-> afterGroup.den * 100]
        ELSE afterGroup

\* fee.py lines 42-55 without an override: the base percent discounted
FeePct(group_verified, user_recurring) ==
    Discounted(BASE_FEE_PERCENT, group_verified, user_recurring)

\* a fee that is not raised to the minimum
FeeFromPct_Unclamped(payout_sats, fee_pct) ==
    RoundDown(payout_sats * fee_pct.num, fee_pct.den)

\* fee.py lines 57-64: payout * percent rounded down, raised to the
\* minimum fee
FeeFromPct(payout_sats, fee_pct) ==
    LET computed == RoundDown(payout_sats * fee_pct.num, fee_pct.den)
    IN  IF computed < MINIMUM_FEE_SATS THEN MINIMUM_FEE_SATS ELSE computed

SatsFee(payout_sats, group_verified, user_recurring) ==
    FeeFromPct(payout_sats, FeePct(group_verified, user_recurring))

\* a split in which every share is rounded down on its own
FeeSplit_AllFloored(sats_fee) ==
    [sats_fee |-> sats_fee,
     platform_share |->
         RoundDown(sats_fee * (100 - COMMUNITY_FUND_SHARE - PARTNER_CASHOUT_SHARE), 100),
     community_share |-> RoundDown(sats_fee * COMMUNITY_FUND_SHARE, 100),
     partner_reserved |-> RoundDown(sats_fee * PARTNER_CASHOUT_SHARE, 100)]

\* a split whose remainder goes to the community share
FeeSplit_CommunityRemainder(sats_fee) ==
    LET platform_share ==
            RoundDown(sats_fee * (100 - COMMUNITY_FUND_SHARE - PARTNER_CASHOUT_SHARE), 100)
        partner_reserved == RoundDown(sats_fee * PARTNER_CASHOUT_SHARE, 100)
    IN  [sats_fee |-> sats_fee,
         platform_share |-> platform_share,
         community_share |-> sats_fee - platform_share - partner_reserved,
         partner_reserved |-> partner_reserved]

\* fee.py lines 66-93: the three shares of a fee
FeeSplit(sats_fee) ==
    LET platform_share ==
            RoundDown(sats_fee * (100 - COMMUNITY_FUND_SHARE - PARTNER_CASHOUT_SHARE), 100)
        community_share == RoundDown(sats_fee * COMMUNITY_FUND_SHARE, 100)
        partner_reserved == sats_fee - platform_share - community_share
    IN  [sats_fee |-> sats_fee,
         platform_share |-> Max(platform_share, 0),
         community_share |-> Max(community_share, 0),
         partner_reserved |-> Max(partner_reserved, 0)]

\* fee.py lines 39-40: the ValueError for a payout that is not positive
PayoutNotPositive(payout_sats) == payout_sats <= 0

\* fee.py lines 20-93 as process_payout calls it (no override); only
\* applied to payout_sats > 0, the ValueError of line 40 is a branch of its
\* callers
calculate_fee_for_payout(payout_sats, group_verified, user_recurring) ==
    FeeSplit(SatsFee(payout_sats, group_verified, user_recurring))

\* fee_percent_override is None
NoOverride == [num |-> 0, den |-> 0]

\* fee.py lines 42-46
BasePct(fee_percent_override) ==
    IF fee_percent_override = NoOverride THEN BASE_FEE_PERCENT ELSE fee_percent_override

\* fee.py lines 42-55 and 92: the fee_percentage the call returns
EffectivePct(group_verified, user_recurring, fee_percent_override) ==
    Discounted(BasePct(fee_percent_override), group_verified, user_recurring)

\* fee.py lines 20-93 with fee_percent_override, for payout_sats > 0
calculate_fee_with_override(payout_sats, group_verified, user_recurring, fee_percent_override) ==
    FeeSplit(FeeFromPct(payout_sats,
                        EffectivePct(group_verified, user_recurring, fee_percent_override)))

\* largest payout_sats sent to POST /fees/calculate
MaxPayoutSats == 400

\* payout_sats of the requests: not positive, small, and up to the bound,
\* and a payout of 100,000 sats
FeePayouts == ((0 - 2)..MaxPayoutSats) \cup {100000}

\* fee_percent_override of the requests: none, 0, 0.005, 0.05, 1.5, -0.01
FeeOverrides ==
    { NoOverride, [num |-> 0, den |-> 1], [num |-> 1, den |-> 200],
      [num |-> 5, den |-> 100], [num |-> 3, den |-> 2], [num |-> 0 - 1, den |-> 100] }

VARIABLE
    feeCall              \* the last POST /fees/calculate request and its answer

feeVars == <<feeCall>>

\* no request has been made
NoFeeCall ==
    [kind |-> "none", payout_sats |-> 0, group_verified |-> FALSE,
     user_recurring |-> FALSE, fee_percent_override |-> NoOverride,
     fee_info |-> [sats_fee |-> 0, platform_share |-> 0, community_share |-> 0,
                   partner_reserved |-> 0],
     fee_percentage |-> NoOverride, net_payout |-> 0]

\* the requests POST /fees/calculate can receive
FeeRequests ==
    { [NoFeeCall EXCEPT !.kind = "request",
                        !.payout_sats = payout_sats,
                        !.group_verified = group_verified,
                        !.user_recurring = user_recurring,
                        !.fee_percent_override = fee_percent_override] :
        payout_sats \in FeePayouts, group_verified \in BOOLEAN,
        user_recurring \in BOOLEAN, fee_percent_override \in FeeOverrides }

\* api/monetization.py lines 47-70: POST /fees/calculate answers the
\* request; the ValueError of fee.py line 40 becomes HTTP 400
calculate_fee ==
    /\ feeCall.kind = "request"
    /\ IF PayoutNotPositive(feeCall.payout_sats)
       THEN feeCall' = [feeCall EXCEPT !.kind = "http400"]
       ELSE LET fee_info == calculate_fee_with_override(feeCall.payout_sats,
                                feeCall.group_verified, feeCall.user_recurring,
                                feeCall.fee_percent_override)
            IN  feeCall' =
                   [feeCall EXCEPT
                       !.kind = "ok",
                       !.fee_info = fee_info,
                       !.fee_percentage = EffectivePct(feeCall.group_verified,
                                              feeCall.user_recurring,
                                              feeCall.fee_percent_override),
                       !.net_payout = feeCall.payout_sats - fee_info.sats_fee]

(***************************************************************************)
(* Part II - process_payout and the celery tasks                           *)
(***************************************************************************)
\* payout requests (run_scheduled_payout tasks queued by the schedule or
\* the API, POST /payouts/process calls) plus process deaths
MaxRequests == 2

\* ids of the rows of the tontine_cycles table
Cycles == {"cycle_1"}
\* celery workers / API request handlers running process_payout
Workers == {"worker_1", "worker_2"}
\* a cycle id that is in no row
UnknownCycle == "no_such_cycle"
\* tasks.py line 39
max_retries == 3

\* the group_verified and user_recurring arguments the API callers send
PayoutFlags ==
    { [group_verified |-> FALSE, user_recurring |-> FALSE],
      [group_verified |-> TRUE,  user_recurring |-> TRUE] }

\* payout_total_sats of the cycles of the model
PayoutTotals == {-5, 0, 1, 50, 1000}

VARIABLES
    cycles,              \* tontine_cycles rows
    feeRecords,          \* fee_records rows, in commit order
    partnerSettlements,  \* partner_settlements rows, in commit order
    payoutLogs,          \* payout_logs rows per cycle, counted by status
    exchangeRateRows,    \* exchange_rates rows written by process_payout
    netPayments,         \* payments the network has executed, by cycle
    lostPayments,        \* of these, the ones whose process_payout call died
                         \* before its commit, by cycle
    taskQueue,           \* queued run_scheduled_payout messages and their number
    wpc,                 \* position of each worker inside process_payout
    run,                 \* the locals of the worker's process_payout call
    wres,                \* what the worker's last call returned or raised
    queued,              \* tasks queued so far by the schedule or the API
    directCalls,         \* POST /payouts/process calls so far
    crashes              \* process deaths so far

poVars == <<cycles, feeRecords, partnerSettlements, payoutLogs, exchangeRateRows,
            netPayments, lostPayments, taskQueue, wpc, run, wres, queued, directCalls, crashes>>

NoFeeInfo ==
    [sats_fee |-> 0, platform_share |-> 0, community_share |-> 0, partner_reserved |-> 0]

NoRun ==
    [cycle_id |-> UnknownCycle, mode |-> "none", group_verified |-> FALSE,
     user_recurring |-> FALSE, retries |-> 0, countdown |-> 0,
     fee_info |-> NoFeeInfo,
     net_payout |-> 0, payment_status |-> "none", paid |-> FALSE]

\* tasks.py line 81: countdown=60 * (2 ** self.request.retries)
RetryCountdown(retries) == 60 * (2 ^ retries)

Task(cycle_id, group_verified, user_recurring, retries, countdown) ==
    [cycle_id |-> cycle_id, group_verified |-> group_verified,
     user_recurring |-> user_recurring, retries |-> retries, countdown |-> countdown]

\* no message is queued
EmptyQueue == [t \in {} |-> 0]

QueuedCount(t) == IF t \in DOMAIN taskQueue THEN taskQueue[t] ELSE 0

\* put one more message t on the queue q
Enqueue(q, t) ==
    IF t \in DOMAIN q
    THEN [q EXCEPT ![t] = @ + 1]
    ELSE [x \in DOMAIN q \cup {t} |-> IF x = t THEN 1 ELSE q[x]]

\* take one message t from the queue q
Dequeue(q, t) ==
    IF q[t] > 1
    THEN [q EXCEPT ![t] = @ - 1]
    ELSE [x \in DOMAIN q \ {t} |-> q[x]]

RECURSIVE EnqueueAll(_, _)
EnqueueAll(q, ts) ==
    IF ts = {} THEN q
    ELSE LET t == CHOOSE x \in ts : TRUE
         IN  EnqueueAll(Enqueue(q, t), ts \ {t})

\* payout.py lines 258-291: a group exists and at least one contribution is
\* paid (Group has no current_members column, so one is expected)
verify_cycle_contributions(c) == cycles[c].tx = "paid"

\* a process_payout that does not look at the amounts
PayoutRejection_NoAmountChecks(cycle_id, group_verified, user_recurring) ==
    IF cycle_id \notin Cycles THEN "not_found"
    ELSE IF cycles[cycle_id].status # "ready" THEN "not_ready"
    ELSE IF cycles[cycle_id].tx = "none" THEN "no_transactions"
    ELSE "none"

\* a process_payout that does not look at the status of the cycle
PayoutRejection_NoStatusCheck(cycle_id, group_verified, user_recurring) ==
    IF cycle_id \notin Cycles THEN "not_found"
    ELSE LET cycle == cycles[cycle_id] IN
         IF cycle.tx = "none" THEN "no_transactions"
         ELSE IF PayoutNotPositive(cycle.payout_total_sats) THEN "payout_not_positive"
         ELSE IF cycle.payout_total_sats
                   - calculate_fee_for_payout(cycle.payout_total_sats,
                                              group_verified, user_recurring).sats_fee <= 0
              THEN "net_payout_not_positive"
              ELSE "none"

\* payout.py lines 121-148: the ValueError process_payout raises before it
\* writes anything, or "none"
PayoutRejection(cycle_id, group_verified, user_recurring) ==
    IF cycle_id \notin Cycles THEN "not_found"
    ELSE LET cycle == cycles[cycle_id] IN
         IF cycle.status # "ready" THEN "not_ready"
         ELSE IF cycle.tx = "none" THEN "no_transactions"
         ELSE IF PayoutNotPositive(cycle.payout_total_sats) THEN "payout_not_positive"
         ELSE IF cycle.payout_total_sats
                   - calculate_fee_for_payout(cycle.payout_total_sats,
                                              group_verified, user_recurring).sats_fee <= 0
              THEN "net_payout_not_positive"
              ELSE "none"

\* payout.py lines 245-255: the rows written by the except block
FailedCycle(cycle) == [cycle EXCEPT !.status = "failed"]

\* a task that retries once more than max_retries allows
AfterRaise_RetryOnceMore(w, r, q) ==
    IF r.mode = "task"
    THEN IF r.retries <= max_retries
         THEN /\ taskQueue' = Enqueue(q,
                                Task(r.cycle_id, r.group_verified, r.user_recurring,
                                     r.retries + 1, RetryCountdown(r.retries)))
              /\ wres' = [wres EXCEPT ![w] = "retry"]
         ELSE /\ taskQueue' = q
              /\ wres' = [wres EXCEPT ![w] = "failed_final"]
    ELSE /\ taskQueue' = q
         /\ wres' = [wres EXCEPT ![w] = "http400"]

\* tasks.py lines 75-89 (task) and api/monetization.py lines 129-130 (API):
\* what the caller of process_payout does when it raises
AfterRaise(w, r, q) ==
    IF r.mode = "task"
    THEN IF r.retries < max_retries
         THEN /\ taskQueue' = Enqueue(q,
                                Task(r.cycle_id, r.group_verified, r.user_recurring,
                                     r.retries + 1, RetryCountdown(r.retries)))
              /\ wres' = [wres EXCEPT ![w] = "retry"]
         ELSE /\ taskQueue' = q
              /\ wres' = [wres EXCEPT ![w] = "failed_final"]
    ELSE /\ taskQueue' = q
         /\ wres' = [wres EXCEPT ![w] = "http400"]

\* payout.py lines 121-165 for a call the worker w has just taken up (r
\* holds its arguments); q is the queue the call leaves behind if it goes on
StartPayout(w, r, q) ==
    LET rejection == PayoutRejection(r.cycle_id, r.group_verified, r.user_recurring)
    IN  IF rejection # "none"
        THEN \* ValueError before the try block: nothing is written
             /\ AfterRaise(w, r, q)
             /\ wpc' = [wpc EXCEPT ![w] = "done"]
             /\ run' = [run EXCEPT ![w] = NoRun]
             /\ UNCHANGED <<cycles, payoutLogs>>
        ELSE IF ~cycles[r.cycle_id].withdraw_invoice
        THEN \* lines 164-165 raise inside the try block: lines 245-256
             /\ cycles' = [cycles EXCEPT ![r.cycle_id] = FailedCycle(@)]
             /\ payoutLogs' = [payoutLogs EXCEPT ![r.cycle_id].failed = @ + 1]
             /\ AfterRaise(w, r, q)
             /\ wpc' = [wpc EXCEPT ![w] = "done"]
             /\ run' = [run EXCEPT ![w] = NoRun]
        ELSE LET cycle == cycles[r.cycle_id]
                 fee_info == calculate_fee_for_payout(cycle.payout_total_sats,
                                 r.group_verified, r.user_recurring)
             IN  /\ run' = [run EXCEPT ![w] =
                              [r EXCEPT !.fee_info = fee_info,
                                        !.net_payout = cycle.payout_total_sats - fee_info.sats_fee]]
                 /\ wpc' = [wpc EXCEPT ![w] = "sending"]
                 /\ wres' = [wres EXCEPT ![w] = "none"]
                 /\ taskQueue' = q
                 /\ UNCHANGED <<cycles, payoutLogs>>


\* contribution tracking (external): a paid Transaction of the cycle appears
Contribute(c) ==
    /\ cycles[c].tx = "none"
    /\ cycles' = [cycles EXCEPT ![c].tx = "paid"]
    /\ UNCHANGED <<feeRecords, partnerSettlements, payoutLogs, exchangeRateRows,
                   netPayments, lostPayments, taskQueue, wpc, run, wres, queued, directCalls, crashes>>

\* payout.py lines 293-315
mark_cycle_ready(cs, c) ==
    IF verify_cycle_contributions(c) THEN [cs EXCEPT ![c].status = "ready"] ELSE cs

\* tasks.py lines 141-169: every collecting cycle is offered to
\* mark_cycle_ready
check_ready_cycles ==
    /\ \E c \in Cycles : cycles[c].status = "collecting" /\ verify_cycle_contributions(c)
    /\ cycles' = [c \in Cycles |->
                    IF cycles[c].status = "collecting"
                    THEN mark_cycle_ready(cycles, c)[c]
                    ELSE cycles[c]]
    /\ UNCHANGED <<feeRecords, partnerSettlements, payoutLogs, exchangeRateRows,
                   netPayments, lostPayments, taskQueue, wpc, run, wres, queued, directCalls, crashes>>

\* tasks.py lines 181-222: one run_scheduled_payout message per ready cycle
process_ready_cycles ==
    LET ready_cycles == {c \in Cycles : cycles[c].status = "ready"}
    IN  /\ ready_cycles # {}
        /\ queued + directCalls + crashes + Cardinality(ready_cycles) <= MaxRequests
        /\ taskQueue' = EnqueueAll(taskQueue,
                           {Task(c, cycles[c].group_verified, FALSE, 0, 0) : c \in ready_cycles})
        /\ queued' = queued + Cardinality(ready_cycles)
        /\ UNCHANGED <<cycles, feeRecords, partnerSettlements, payoutLogs,
                       exchangeRateRows, netPayments, lostPayments, wpc, run, wres, directCalls,
                       crashes>>

\* api/monetization.py lines 132-154: POST /payouts/schedule
schedule_payout ==
    /\ queued + directCalls + crashes < MaxRequests
    /\ \E c \in Cycles, f \in PayoutFlags :
          taskQueue' = Enqueue(taskQueue, Task(c, f.group_verified, f.user_recurring, 0, 0))
    /\ queued' = queued + 1
    /\ UNCHANGED <<cycles, feeRecords, partnerSettlements, payoutLogs,
                   exchangeRateRows, netPayments, lostPayments, wpc, run, wres, directCalls,
                       crashes>>

\* tasks.py lines 39-70: a worker takes a message and calls process_payout
run_scheduled_payout(w) ==
    /\ wpc[w] = "idle"
    /\ \E t \in DOMAIN taskQueue :
          StartPayout(w, [NoRun EXCEPT !.cycle_id = t.cycle_id, !.mode = "task",
                                       !.group_verified = t.group_verified,
                                       !.user_recurring = t.user_recurring,
                                       !.retries = t.retries,
                                       !.countdown = t.countdown],
                      Dequeue(taskQueue, t))
    /\ UNCHANGED <<feeRecords, partnerSettlements, exchangeRateRows, netPayments,
                   lostPayments, queued, directCalls, crashes>>

\* api/monetization.py lines 99-130: POST /payouts/process calls
\* process_payout in the request handler
process_payout_endpoint(w) ==
    /\ wpc[w] = "idle"
    /\ queued + directCalls + crashes < MaxRequests
    /\ \E c \in Cycles \cup {UnknownCycle}, f \in PayoutFlags :
          StartPayout(w, [NoRun EXCEPT !.cycle_id = c, !.mode = "api",
                                       !.group_verified = f.group_verified,
                                       !.user_recurring = f.user_recurring],
                      taskQueue)
    /\ directCalls' = directCalls + 1
    /\ UNCHANGED <<feeRecords, partnerSettlements, exchangeRateRows, netPayments,
                   lostPayments, queued, crashes>>

\* what lnd_client.send_payment can do: the network pays or not, and the
\* call returns a result (whose status process_payout does not read) or
\* raises; a raise leaves open whether the network has paid
SendOutcomes ==
    { [paid |-> TRUE,  reply |-> "SUCCEEDED"],
      [paid |-> FALSE, reply |-> "FAILED"],
      [paid |-> FALSE, reply |-> "raise"],
      [paid |-> TRUE,  reply |-> "raise"] }

\* payout.py line 168: lnd_client.send_payment(cycle.withdraw_invoice)
send_payment(w) ==
    /\ wpc[w] = "sending"
    /\ \E o \in SendOutcomes :
          /\ netPayments' = [netPayments EXCEPT ![run[w].cycle_id] =
                               IF o.paid THEN @ + 1 ELSE @]
          /\ run' = [run EXCEPT ![w].payment_status = o.reply, ![w].paid = o.paid]
          /\ wpc' = [wpc EXCEPT ![w] = IF o.reply = "raise" THEN "raised" ELSE "returned"]
    /\ UNCHANGED <<cycles, feeRecords, partnerSettlements, payoutLogs, exchangeRateRows,
                   lostPayments, taskQueue, wres, queued, directCalls, crashes>>

\* a FeeRecord with the partner and the platform columns taken for each other
FeeRecord_SharesSwapped(cycle_id, fee_info) ==
    [cycle_id |-> cycle_id, sats_fee |-> fee_info.sats_fee,
     sats_to_partner |-> fee_info.platform_share,
     sats_to_community |-> fee_info.community_share,
     sats_to_platform |-> fee_info.partner_reserved]

\* payout.py lines 177-186
FeeRecord(cycle_id, fee_info) ==
    [cycle_id |-> cycle_id, sats_fee |-> fee_info.sats_fee,
     sats_to_partner |-> fee_info.partner_reserved,
     sats_to_community |-> fee_info.community_share,
     sats_to_platform |-> fee_info.platform_share]

\* payout.py lines 206-215
NewSettlements(fee_info) ==
    IF fee_info.partner_reserved > 0
    THEN << [partner |-> "wave", sats_equivalent |-> fee_info.partner_reserved,
             status |-> "pending"] >>
    ELSE << >>

\* a payout that commits the paid status on its own, ahead of the ledger rows
record_payout_StatusFirst(w) ==
    /\ wpc[w] = "returned"
    /\ cycles' = [cycles EXCEPT ![run[w].cycle_id].status = "paid"]
    /\ wpc' = [wpc EXCEPT ![w] = "done"]
    /\ run' = [run EXCEPT ![w] = NoRun]
    /\ wres' = [wres EXCEPT ![w] = "completed"]
    /\ UNCHANGED <<feeRecords, partnerSettlements, payoutLogs, exchangeRateRows,
                   netPayments, lostPayments, taskQueue, queued, directCalls, crashes>>

\* payout.py lines 170-243: send_payment has returned; the ledger rows and
\* the paid status are committed together
record_payout(w) ==
    /\ wpc[w] = "returned"
    /\ LET r == run[w] IN
          /\ payoutLogs' = [payoutLogs EXCEPT ![r.cycle_id].completed = @ + 1]
          /\ feeRecords' = Append(feeRecords, FeeRecord(r.cycle_id, r.fee_info))
          /\ cycles' = [cycles EXCEPT ![r.cycle_id].status = "paid"]
          /\ partnerSettlements' = partnerSettlements \o NewSettlements(r.fee_info)
          /\ exchangeRateRows' = exchangeRateRows + 1
    /\ wpc' = [wpc EXCEPT ![w] = "done"]
    /\ run' = [run EXCEPT ![w] = NoRun]
    /\ wres' = [wres EXCEPT ![w] = "completed"]
    /\ UNCHANGED <<netPayments, lostPayments, taskQueue, queued, directCalls, crashes>>

\* payout.py lines 245-256: send_payment has raised; the cycle is committed
\* as failed and the exception goes to the caller
fail_payout(w) ==
    /\ wpc[w] = "raised"
    /\ LET r == run[w] IN
          /\ payoutLogs' = [payoutLogs EXCEPT ![r.cycle_id].failed = @ + 1]
          /\ cycles' = [cycles EXCEPT ![r.cycle_id] = FailedCycle(@)]
          /\ AfterRaise(w, r, taskQueue)
    /\ wpc' = [wpc EXCEPT ![w] = "done"]
    /\ run' = [run EXCEPT ![w] = NoRun]
    /\ UNCHANGED <<feeRecords, partnerSettlements, exchangeRateRows, netPayments,
                   lostPayments, queued, directCalls, crashes>>

\* the process dies inside process_payout: nothing of the open transaction
\* is committed; a task message is delivered again (task_acks_late, tasks.py
\* line 36)
crash_payout(w) ==
    /\ wpc[w] \in {"sending", "returned", "raised"}
    /\ queued + directCalls + crashes < MaxRequests
    /\ crashes' = crashes + 1
    /\ wpc' = [wpc EXCEPT ![w] = "idle"]
    /\ wres' = [wres EXCEPT ![w] = "none"]
    /\ taskQueue' = IF run[w].mode = "task"
                    THEN Enqueue(taskQueue,
                           Task(run[w].cycle_id, run[w].group_verified,
                                run[w].user_recurring, run[w].retries,
                                run[w].countdown))
                    ELSE taskQueue
    /\ run' = [run EXCEPT ![w] = NoRun]
    /\ lostPayments' = [lostPayments EXCEPT ![run[w].cycle_id] =
                          IF run[w].paid THEN @ + 1 ELSE @]
    /\ UNCHANGED <<cycles, feeRecords, partnerSettlements, payoutLogs, exchangeRateRows,
                   netPayments, queued, directCalls>>

\* the call's answer has been delivered: the worker is free again
finish_payout(w) ==
    /\ wpc[w] = "done"
    /\ wpc' = [wpc EXCEPT ![w] = "idle"]
    /\ wres' = [wres EXCEPT ![w] = "none"]
    /\ UNCHANGED <<cycles, feeRecords, partnerSettlements, payoutLogs, exchangeRateRows,
                   netPayments, lostPayments, taskQueue, run, queued, directCalls, crashes>>

(***************************************************************************)
(* Part II - the community fund (backend/monetization/services/            *)
(*           accounting.py), refreshed by the daily celery task            *)
(*           update_community_fund_balance                                 *)
(***************************************************************************)
VARIABLES
    communityFund,       \* the community_fund row
    distributions        \* fund_distributions rows, in the order of their creation

acctVars == <<communityFund, distributions>>

\* POST /community-fund/distribute requests made in one behaviour
MaxDistributions == 2

\* sats_amount of the distribution requests
DistributionAmounts == {1, 2}

\* no community_fund row exists yet
NoFund == [exists |-> FALSE, total_sats |-> 0]

\* accounting.py line 189: sum(FeeRecord.sats_to_community)
RECURSIVE SumCommunity(_)
SumCommunity(rows) ==
    IF rows = << >> THEN 0
    ELSE Head(rows).sats_to_community + SumCommunity(Tail(rows))

\* accounting.py lines 192-194: sum(FundDistribution.sats_amount) over the
\* rows with status distributed
RECURSIVE SumDistributed(_)
SumDistributed(rows) ==
    IF rows = << >> THEN 0
    ELSE (IF Head(rows).status = "distributed" THEN Head(rows).sats_amount ELSE 0)
         + SumDistributed(Tail(rows))

DistributedSats == SumDistributed(distributions)

\* accounting.py lines 165-204 (tasks.py lines 344-373): the row is created
\* if missing and its balance recomputed from the committed fee_records
update_community_fund ==
    /\ communityFund' = [exists |-> TRUE,
                         total_sats |-> SumCommunity(feeRecords) - DistributedSats]
    /\ UNCHANGED <<poVars, distributions>>

\* accounting.py lines 206-256: a distribution request within the balance
\* is stored as pending (a missing fund row or a larger amount raises
\* ValueError and nothing is written)
create_fund_distribution(sats_amount) ==
    /\ Len(distributions) < MaxDistributions
    /\ communityFund.exists
    /\ sats_amount <= communityFund.total_sats
    /\ distributions' = Append(distributions,
                               [sats_amount |-> sats_amount, status |-> "pending"])
    /\ UNCHANGED <<poVars, communityFund>>

\* accounting.py lines 258-288: pending -> approved
approve_fund_distribution(distribution_id) ==
    /\ distribution_id \in DOMAIN distributions
    /\ distributions[distribution_id].status = "pending"
    /\ distributions' = [distributions EXCEPT ![distribution_id].status = "approved"]
    /\ UNCHANGED <<poVars, communityFund>>

\* accounting.py lines 290-329: approved -> distributed, the amount taken
\* from the balance in the same commit
execute_fund_distribution(distribution_id) ==
    /\ distribution_id \in DOMAIN distributions
    /\ distributions[distribution_id].status = "approved"
    /\ communityFund' = [communityFund EXCEPT
                            !.total_sats = @ - distributions[distribution_id].sats_amount]
    /\ distributions' = [distributions EXCEPT ![distribution_id].status = "distributed"]
    /\ UNCHANGED poVars

\* the tables and workers before anything has run
PoIdle ==
    /\ communityFund = NoFund
    /\ distributions = << >>
    /\ feeRecords = << >>
    /\ partnerSettlements = << >>
    /\ payoutLogs = [c \in Cycles |-> [completed |-> 0, failed |-> 0]]
    /\ exchangeRateRows = 0
    /\ netPayments = [c \in Cycles |-> 0]
    /\ lostPayments = [c \in Cycles |-> 0]
    /\ taskQueue = EmptyQueue
    /\ wpc = [w \in Workers |-> "idle"]
    /\ run = [w \in Workers |-> NoRun]
    /\ wres = [w \in Workers |-> "none"]
    /\ queued = 0
    /\ directCalls = 0
    /\ crashes = 0

CycleRows ==
    [status : {"collecting"}, payout_total_sats : PayoutTotals,
     withdraw_invoice : BOOLEAN, tx : {"none"}, group_verified : BOOLEAN]

PoInit ==
    /\ cycles \in [Cycles -> CycleRows]
    /\ PoIdle

(***************************************************************************)
(* Part III - HMAC receipts (server/_core/security/receipt.py) over the    *)
(*            secrets of server/_core/security/secrets.py                  *)
(***************************************************************************)
VARIABLES
    secretsCache,        \* SecretsManager._secrets_cache, by secret name
    rcIssued,            \* the make_receipt call made: arguments and outcome
    rcCheck,             \* the verify_receipt call made: arguments and outcome
    secretsBackend,      \* SecretsManager.backend
    rotations,           \* rotate_receipt_keys calls made so far
    rotatedSinceIssue    \* of these, the ones made after the receipt was issued

rcVars == <<secretsCache, rcIssued, rcCheck, secretsBackend, rotations, rotatedSinceIssue>>

\* rotate_receipt_keys calls made in one behaviour
MaxRotations == 2

\* secrets.py line 21: the SECRETS_BACKEND values of the model ("aws-kms"
\* takes the same branches of rotate_secret as "vault")
Backends == {"env", "vault"}

\* the names the cache is loaded with (secrets.py lines 47-48; a KMS or
\* Vault document may also hold the key of a later version)
SecretNames == {"RECEIPT_HMAC_V1", "RECEIPT_HMAC_V2", "RECEIPT_HMAC_PREV"}
\* the variable is unset (None) or empty: `not value` at secrets.py line 121
NoSecret == ""
SecretValues == {"key_a", "key_b", "key_c"}

\* the version arguments and receipt prefixes of the model
Versions == {"v1", "V1", "v2", "prev", "v9"}

\* receipt.py lines 44 and 84: f"RECEIPT_HMAC_{version.upper()}"
SecretName(version) ==
    CASE version \in {"v1", "V1"} -> "RECEIPT_HMAC_V1"
      [] version \in {"v2", "V2"} -> "RECEIPT_HMAC_V2"
      [] version \in {"prev", "PREV"} -> "RECEIPT_HMAC_PREV"
      [] OTHER -> "RECEIPT_HMAC_V9"

\* secrets.py lines 119-122: get_secret raises RuntimeError
SecretMissing(name) ==
    name \notin DOMAIN secretsCache \/ secretsCache[name] = NoSecret

\* secrets.py lines 114-124: get_secret(name) where it does not raise
get_secret(name) == secretsCache[name]

\* the values of the payload fields: JSON numbers and strings, and a
\* Decimal, which json.dumps cannot serialize
AmountValues ==
    { [type |-> "int", text |-> "1000"], [type |-> "int", text |-> "2000"],
      [type |-> "str", text |-> "1000"], [type |-> "decimal", text |-> "1000"] }
IdValues == { [type |-> "str", text |-> "c1"], [type |-> "str", text |-> "c2"] }

\* payload dicts, as the sequence of their items in insertion order
Payloads ==
    UNION { { << [key |-> "id", value |-> i], [key |-> "amount_sats", value |-> a] >>,
              << [key |-> "amount_sats", value |-> a], [key |-> "id", value |-> i] >> } :
            i \in IdValues, a \in AmountValues }

\* the order of the keys as strings
KeyRank(key) ==
    CASE key = "amount_sats" -> 1
      [] key = "count" -> 2
      [] key = "id" -> 3
      [] key = "operations" -> 4
      [] key = "timestamp" -> 5
      [] OTHER -> 6

\* sort_keys=True: the item put at its place among items sorted by key
RECURSIVE InsertByKey(_, _)
InsertByKey(item, sorted) ==
    IF sorted = << >> THEN << item >>
    ELSE IF KeyRank(item.key) <= KeyRank(Head(sorted).key)
         THEN << item >> \o sorted
         ELSE << Head(sorted) >> \o InsertByKey(item, Tail(sorted))

RECURSIVE SortByKey(_)
SortByKey(items) ==
    IF items = << >> THEN << >>
    ELSE InsertByKey(Head(items), SortByKey(Tail(items)))

\* json.dumps raises TypeError on the payload
NotSerializable(payload) ==
    \E i \in DOMAIN payload : payload[i].value.type = "decimal"

\* a serialization that keeps the insertion order of the dict
canonicalize_payload_Unsorted(payload) == payload

\* receipt.py lines 18-20: json.dumps(payload, sort_keys=True, ...) of a
\* serializable payload: the items by key, each value with its JSON type
canonicalize_payload(payload) == SortByKey(payload)

\* receipt.py lines 14-16: the hex digest, an injective function of the
\* secret and the message
hmac_sign(secret, message) == [ascii |-> TRUE, secret |-> secret, message |-> message]

\* signatures that no key has made: hex text, and text that is not ASCII
JunkSignature == [ascii |-> TRUE, secret |-> "none", message |-> << >>]
NonAsciiSignature == [ascii |-> FALSE, secret |-> "none", message |-> << >>]

\* receipt strings: "version:signature", text without ':', and a value
\* that is no string
ReceiptString(version, signature) ==
    [form |-> "str", colon |-> TRUE, version |-> version, signature |-> signature]
NoColonReceipt ==
    [form |-> "str", colon |-> FALSE, version |-> "", signature |-> JunkSignature]
NotAString ==
    [form |-> "none", colon |-> FALSE, version |-> "", signature |-> JunkSignature]

\* receipt.py lines 22-56: the receipt, or the RuntimeError of line 56
make_receipt(payload, version) ==
    IF SecretMissing(SecretName(version)) \/ NotSerializable(payload)
    THEN [kind |-> "runtime_error", receipt |-> NotAString]
    ELSE [kind |-> "ok",
          receipt |-> ReceiptString(version,
                          hmac_sign(get_secret(SecretName(version)),
                                    canonicalize_payload(payload)))]

\* hmac.compare_digest(expected, signature): raises TypeError on a str
\* that is not ASCII
compare_digest(expected, signature) ==
    IF ~signature.ascii THEN "raise"
    ELSE IF expected = signature THEN "match" ELSE "mismatch"

\* receipt.py lines 84-85 and 92-94: fetch the key and compare
KeyCheck(name, canonical, signature) ==
    IF SecretMissing(name) THEN "raise"
    ELSE compare_digest(hmac_sign(get_secret(name), canonical), signature)

\* receipt.py lines 83-88 and 91-97: `except Exception: pass` around each
\* key check
Guarded(outcome) == IF outcome = "raise" THEN "mismatch" ELSE outcome

\* receipt.py lines 73-99, the body of the outer try block: "true",
\* "false", or "raise" if an exception leaves it
VerifyBody(payload, receipt) ==
    IF receipt.form # "str" THEN "raise"           \* TypeError at line 74
    ELSE IF ~receipt.colon THEN "false"            \* lines 74-75
    ELSE IF NotSerializable(payload) THEN "raise"  \* TypeError at line 80
    ELSE LET canonical == canonicalize_payload(payload)
             current == Guarded(KeyCheck(SecretName(receipt.version), canonical,
                                         receipt.signature))
             previous == Guarded(KeyCheck("RECEIPT_HMAC_PREV", canonical,
                                          receipt.signature))
         IN  IF current = "match" THEN "true"
             ELSE IF current = "raise" THEN "raise"
             ELSE IF previous = "match" THEN "true"
             ELSE IF previous = "raise" THEN "raise"
             ELSE "false"

\* receipt.py lines 72 and 101-102: `except Exception: return False`
OuterGuard(outcome) == IF outcome = "raise" THEN "false" ELSE outcome

\* a verification without any exception handler
verify_receipt_Unguarded(payload, receipt) ==
    IF receipt.form # "str" THEN "raise"
    ELSE IF ~receipt.colon THEN "false"
    ELSE IF NotSerializable(payload) THEN "raise"
    ELSE LET canonical == canonicalize_payload(payload)
             current == KeyCheck(SecretName(receipt.version), canonical,
                                 receipt.signature)
             previous == KeyCheck("RECEIPT_HMAC_PREV", canonical, receipt.signature)
         IN  IF current = "match" THEN "true"
             ELSE IF current = "raise" THEN "raise"
             ELSE IF previous = "match" THEN "true"
             ELSE IF previous = "raise" THEN "raise"
             ELSE "false"

\* receipt.py lines 58-102: "true" or "false"; "raise" if an exception
\* were to leave the function
verify_receipt(payload, receipt) == OuterGuard(VerifyBody(payload, receipt))

NoIssue ==
    [kind |-> "none", payload |-> << >>, version |-> "", receipt |-> NotAString]
NoCheck ==
    [kind |-> "none", payload |-> << >>, receipt |-> NotAString, result |-> "none"]

\* a create_*_receipt helper signs a payload (receipt.py lines 104-249)
IssueReceipt ==
    /\ rcIssued.kind = "none"
    /\ \E payload \in Payloads, version \in Versions :
          LET made == make_receipt(payload, version)
          IN  rcIssued' = [kind |-> made.kind, payload |-> payload,
                           version |-> version, receipt |-> made.receipt]
    /\ UNCHANGED <<secretsCache, rcCheck, secretsBackend, rotations, rotatedSinceIssue>>

\* the receipts a client can present for the payload that was signed: the
\* one issued, malformed ones, and every version prefix with a signature
\* made by some key or by none
PresentedReceipts ==
    {NoColonReceipt, NotAString}
    \cup (IF rcIssued.kind = "ok" THEN {rcIssued.receipt} ELSE {})
    \cup { ReceiptString(version, signature) :
             version \in Versions,
             signature \in {JunkSignature, NonAsciiSignature}
                 \cup (IF rcIssued.kind = "none" \/ NotSerializable(rcIssued.payload)
                       THEN {}
                       ELSE { hmac_sign(k, canonicalize_payload(rcIssued.payload)) :
                                k \in SecretValues }) }

\* a verify_*_receipt helper checks a receipt (receipt.py lines 251-265)
CheckReceipt ==
    /\ rcIssued.kind # "none"
    /\ rcCheck.kind = "none"
    /\ \E payload \in Payloads, receipt \in PresentedReceipts :
          rcCheck' = [kind |-> "done", payload |-> payload, receipt |-> receipt,
                      result |-> verify_receipt(payload, receipt)]
    /\ UNCHANGED <<secretsCache, rcIssued, secretsBackend, rotations, rotatedSinceIssue>>

\* longest list of operations of a batch receipt
MaxOperations == 2

\* the operation dicts of a batch, each named by its canonical JSON text
OperationDicts == {"op_a", "op_b"}

RECURSIVE ListsOf(_)
ListsOf(n) ==
    IF n = 0 THEN {<< >>}
    ELSE LET shorter == ListsOf(n - 1)
         IN  shorter \cup {Append(l, o) : l \in {m \in shorter : Len(m) = n - 1},
                                          o \in OperationDicts}

BatchOperations == ListsOf(MaxOperations)

\* int(time.time() * 1000) at the calls of create_batch_receipt
Timestamps == {"1700000000000", "1700000000001"}

\* len(operations) as JSON text
CountText(operations) == <<"0", "1", "2", "3">>[Len(operations) + 1]

\* receipt.py lines 322-327: the payload create_batch_receipt signs
BatchPayload(operations, timestamp) ==
    << [key |-> "type", value |-> [type |-> "str", text |-> "batch"]],
       [key |-> "operations", value |-> [type |-> "list", text |-> operations]],
       [key |-> "count", value |-> [type |-> "int", text |-> CountText(operations)]],
       [key |-> "timestamp", value |-> [type |-> "int", text |-> timestamp]] >>

\* receipt.py lines 333-337: the payload verify_batch_receipt rebuilds
BatchData(operations) ==
    << [key |-> "type", value |-> [type |-> "str", text |-> "batch"]],
       [key |-> "operations", value |-> [type |-> "list", text |-> operations]],
       [key |-> "count", value |-> [type |-> "int", text |-> CountText(operations)]] >>

\* receipt.py lines 312-329
create_batch_receipt ==
    /\ rcIssued.kind = "none"
    /\ \E operations \in BatchOperations, timestamp \in Timestamps :
          LET payload == BatchPayload(operations, timestamp)
              made == make_receipt(payload, "v1")
          IN  rcIssued' = [kind |-> made.kind, payload |-> payload,
                           version |-> "v1", receipt |-> made.receipt]
    /\ UNCHANGED <<secretsCache, rcCheck, secretsBackend, rotations, rotatedSinceIssue>>

\* receipt.py lines 331-339, on the receipt that was issued or on a receipt
\* with a signature no key has made
verify_batch_receipt ==
    /\ rcIssued.kind = "ok"
    /\ rcCheck.kind = "none"
    /\ \E operations \in BatchOperations,
          receipt \in {rcIssued.receipt, ReceiptString("v1", JunkSignature)} :
          LET batch_data == BatchData(operations)
          IN  rcCheck' = [kind |-> "done", payload |-> batch_data, receipt |-> receipt,
                          result |-> verify_receipt(batch_data, receipt)]
    /\ UNCHANGED <<secretsCache, rcIssued, secretsBackend, rotations, rotatedSinceIssue>>

\* the secrets a deployment can be configured with
SecretConfigs ==
    { [n \in SecretNames |->
          CASE n = "RECEIPT_HMAC_V1" -> v1
            [] n = "RECEIPT_HMAC_V2" -> v2
            [] OTHER -> prev] :
      v1 \in {NoSecret, "key_a"}, v2 \in {NoSecret, "key_b"},
      prev \in {NoSecret, "key_a", "key_c"} }

\* the secrets.token_urlsafe(32) values of receipt.py line 360, in the
\* order they are made: each is new
NewSecrets == <<"token_1", "token_2", "token_3", "token_4">>

\* secrets.py lines 136-149: rotate_secret(name, new_value) on the cache;
\* the env backend only logs a warning
rotate_secret(cache, name, new_value) ==
    IF secretsBackend = "env" THEN cache
    ELSE [cache EXCEPT ![name] = new_value]

\* receipt.py lines 342-371: the current RECEIPT_HMAC_V1 is stored as the
\* previous key and a new key is stored under the name of new_version; a
\* missing RECEIPT_HMAC_V1 raises at line 352 before anything is written
rotate_receipt_keys(new_version) ==
    /\ rotations < MaxRotations
    /\ rotations < Len(NewSecrets)
    /\ rotations' = rotations + 1
    /\ IF SecretMissing("RECEIPT_HMAC_V1")
       THEN UNCHANGED <<secretsCache, rotatedSinceIssue>>
       ELSE LET current_secret == get_secret("RECEIPT_HMAC_V1")
                new_secret == NewSecrets[rotations + 1]
            IN  /\ secretsCache' =
                      rotate_secret(rotate_secret(secretsCache, "RECEIPT_HMAC_PREV",
                                                  current_secret),
                                    SecretName(new_version), new_secret)
                /\ rotatedSinceIssue' =
                      IF rcIssued.kind = "ok" THEN rotatedSinceIssue + 1
                      ELSE rotatedSinceIssue
    /\ UNCHANGED <<rcIssued, rcCheck, secretsBackend>>

\* no receipt call has been made; the secrets of the development
\* environment are loaded
RcIdle ==
    /\ secretsCache = [n \in SecretNames |->
                          IF n = "RECEIPT_HMAC_V1" THEN "key_a" ELSE NoSecret]
    /\ rcIssued = NoIssue
    /\ rcCheck = NoCheck
    /\ secretsBackend = "env"
    /\ rotations = 0
    /\ rotatedSinceIssue = 0

(***************************************************************************)
(* Part IV - the LND REST client (backend/app/utils/lnd_client.py):         *)
(* LndClient.pay_invoice posts the payment and reads the streamed events    *)
(***************************************************************************)
VARIABLES lndCall, lndResult, lndRead
lnVars == <<lndCall, lndResult, lndRead>>

\* longest response stream, in chunks
MaxChunks == 2

\* a key the event does not carry (dict.get gives None)
NoField == "None"

\* nothing was parsed yet: final_event = None
NoEvent ==
    [kind |-> "none", status |-> NoField, preimage |-> NoField,
     failure |-> NoField, fee_msat |-> 0]

\* the chunks iter_lines yields: a blank line, a line that is not JSON, a JSON
\* value that is not an object, the empty object, or an event object with
\* its status, preimage (a hex string), failure and fee_msat (0: absent)
Events ==
    [kind : {"dict"},
     status : {"SUCCEEDED", "FAILED", "IN_FLIGHT", NoField},
     preimage : {NoField, "hex"},
     failure : {NoField, "reason"},
     fee_msat : {0, 1500}]

Chunks ==
    {[NoEvent EXCEPT !.kind = k] : k \in {"blank", "garbage", "list", "empty_dict"}}
        \cup Events

RECURSIVE StreamsOf(_)
StreamsOf(n) ==
    IF n = 0 THEN {<< >>}
    ELSE LET shorter == StreamsOf(n - 1)
         IN  shorter \cup {Append(s, c) : s \in {t \in shorter : Len(t) = n - 1}, c \in Chunks}

Streams == StreamsOf(MaxChunks)

\* what the transport does: the POST fails to connect, answers a status
\* other than 200, or answers 200 and, after the chunks of the stream, ends
\* the body ("eof"), resets the connection or lets the read time out
Transports == {"connection_error", "status_500", "eof", "reset", "timeout"}

LndCalls ==
    {[stream |-> s, transport |-> t] : s \in Streams, t \in {"eof", "reset", "timeout"}}
        \cup {[stream |-> << >>, transport |-> t] : t \in {"connection_error", "status_500"}}

NoLndCall == [stream |-> << >>, transport |-> "none"]
NoLndResult == [kind |-> "none"]

\* json.loads fails on the chunk, or the chunk is empty: the loop continues
Skipped(chunk) == chunk.kind \in {"blank", "garbage"}

\* isinstance(ev, dict)
IsDict(ev) == ev.kind \in {"dict", "empty_dict"}

\* the statuses at which the loop breaks
Terminal(ev) == IsDict(ev) /\ ev.status \in {"FAILED", "SUCCEEDED"}

\* the for loop over r.iter_lines: the last parsed event, the number of
\* chunks read, and whether the loop asked for a chunk after the last one
RECURSIVE ReadEvents(_, _, _)
ReadEvents(stream, i, final_event) ==
    IF i > Len(stream)
        THEN [final_event |-> final_event, read |-> Len(stream), exhausted |-> TRUE]
    ELSE IF Skipped(stream[i])
        THEN ReadEvents(stream, i + 1, final_event)
    ELSE IF Terminal(stream[i])
        THEN [final_event |-> stream[i], read |-> i, exhausted |-> FALSE]
    ELSE ReadEvents(stream, i + 1, stream[i])

LndRaise(message) ==
    [kind |-> "raise", exc |-> "LndClientError", message |-> message]

\* `not final_event`: None and the empty object are both falsy
Falsy_Never(ev) == FALSE
Falsy(ev) == ev.kind \in {"none", "empty_dict"}

\* the hex preimage is kept; anything else is base64-decoded to hex
PreimageHex(pre) ==
    IF pre = NoField THEN NoField
    ELSE IF pre = "hex" THEN "hex" ELSE "hex_of_base64"

\* status == "SUCCEEDED" or (failure is None and a preimage is present)
ParsedSuccess(ev) ==
    \/ ev.status = "SUCCEEDED"
    \/ ev.failure = NoField /\ ev.preimage # NoField

\* err = ev.get("failure", ev.get("error", ev)): the reason of the failure,
\* or the text of the whole event
FailureReason(ev) == IF ev.failure # NoField THEN ev.failure ELSE "str(event)"

\* the interpretation of final_event after the loop
Interpret(ev) ==
    IF Falsy(ev) THEN LndRaise("No response events from LND router")
    ELSE IF ~IsDict(ev) THEN LndRaise("object has no attribute 'get'")
    ELSE IF ParsedSuccess(ev)
        THEN [kind |-> "return", success |-> TRUE,
              preimage |-> PreimageHex(ev.preimage),
              fee_sat |-> IF ev.fee_msat = 0 THEN NoField ELSE ev.fee_msat \div 1000,
              raw_event |-> ev]
    ELSE [kind |-> "return", success |-> FALSE,
          error |-> FailureReason(ev), raw_event |-> ev]

\* one call of LndClient.pay_invoice
LndClient_pay_invoice ==
    /\ lndCall # NoLndCall
    /\ lndResult = NoLndResult
    /\ LET read == ReadEvents(lndCall.stream, 1, NoEvent)
       IN  IF lndCall.transport = "connection_error"
               THEN /\ lndResult' = LndRaise("HTTP error to LND REST")
                    /\ lndRead' = 0
           ELSE IF lndCall.transport = "status_500"
               THEN /\ lndResult' = LndRaise("LND REST returned status")
                    /\ lndRead' = 0
           ELSE IF read.exhausted /\ lndCall.transport \in {"reset", "timeout"}
               THEN /\ lndResult' = LndRaise("HTTP error to LND REST")
                    /\ lndRead' = read.read
           ELSE /\ lndResult' = Interpret(read.final_event)
                /\ lndRead' = read.read
    /\ UNCHANGED lndCall

LnIdle == lndCall = NoLndCall /\ lndResult = NoLndResult /\ lndRead = 0

\* a cycle that collects 1000 sats for its winner
NewCycle ==
    [status |-> "collecting", payout_total_sats |-> 1000,
     withdraw_invoice |-> TRUE, tx |-> "none", group_verified |-> FALSE]

(***************************************************************************)
(* The withdraw invoice of a cycle (models.py line 34): a BOLT11 invoice   *)
(* names its own amount, and process_payout hands the invoice to           *)
(* send_payment as it is (payout.py line 168)                              *)
(***************************************************************************)
VARIABLE
    invoiceSats          \* the amount the withdraw invoice asks for, by cycle

invVars == <<invoiceSats>>

\* an invoice for the payout total less the fee without discounts
NetInvoice(cycle) ==
    cycle.payout_total_sats - SatsFee(cycle.payout_total_sats, FALSE, FALSE)

\* the winner's invoice asks for the net payout
InvIdle == invoiceSats = [c \in Cycles |-> NetInvoice(cycles[c])]

\* the invoices a winner of the 1000-sat cycle can hand in: for the net
\* payout, or for the whole payout total
InvoiceAmounts == {NetInvoice(NewCycle), NewCycle.payout_total_sats}

(***************************************************************************)
(* Part V - partner settlements (backend/monetization/services/            *)
(*          partners.py): settle_partner_settlements, run by the celery    *)
(*          task monthly_partner_settlement                                *)
(***************************************************************************)
VARIABLES
    spc,                 \* where each worker is in settle_partner_settlements
    unsettled,           \* the rows of the run's query still to be processed
    picked,              \* the rows the run's query returned
    cashoutResult,       \* what cashout_xof answered for the current row
    cashouts,            \* cashout_xof calls made, by settlement
    settleRuns           \* runs of settle_partner_settlements started so far

psVars == <<spc, unsettled, picked, cashoutResult, cashouts, settleRuns>>

\* PartnerSettlement rows in the table
MaxSettlements == 2
\* runs of monthly_partner_settlement (beat schedule, POST /partners/settle,
\* retries) in one behaviour
MaxSettleRuns == 3

SettlementIds == 1..MaxSettlements

\* a row as process_payout creates it (payout.py lines 205-216)
PendingSettlement == [partner |-> "wave", sats_equivalent |-> 3, status |-> "pending"]

\* partners.py lines 357-360: the ids of the pending rows of the partner,
\* in table order
RECURSIVE PendingFrom(_, _)
PendingFrom(rows, i) ==
    IF i > Len(rows) THEN << >>
    ELSE IF rows[i].partner = "wave" /\ rows[i].status = "pending"
         THEN << i >> \o PendingFrom(rows, i + 1)
         ELSE PendingFrom(rows, i + 1)

Range(seq) == {seq[i] : i \in DOMAIN seq}

\* partners.py lines 357-360
Unsettled(w) == PendingFrom(partnerSettlements, 1)

\* partners.py lines 343-377: a run starts and queries the pending rows;
\* with none it returns at once (lines 362-369)
settle_partner_settlements(w) ==
    /\ spc[w] = "idle"
    /\ settleRuns < MaxSettleRuns
    /\ settleRuns' = settleRuns + 1
    /\ unsettled' = [unsettled EXCEPT ![w] = Unsettled(w)]
    /\ picked' = [picked EXCEPT ![w] = Range(Unsettled(w))]
    /\ spc' = [spc EXCEPT ![w] = IF Unsettled(w) = << >> THEN "idle" ELSE "marking"]
    /\ UNCHANGED <<partnerSettlements, cashoutResult, cashouts>>

\* partners.py lines 379-385: the row is written as processing and committed
mark_processing(w) ==
    /\ spc[w] = "marking"
    /\ partnerSettlements' =
           [partnerSettlements EXCEPT ![Head(unsettled[w])].status = "processing"]
    /\ spc' = [spc EXCEPT ![w] = "cashing"]
    /\ UNCHANGED <<unsettled, picked, cashoutResult, cashouts, settleRuns>>

\* partners.py lines 392-396: the partner is asked to pay; the clients
\* answer success or failure and raise nothing (lines 79-116)
cashout_xof(w) ==
    /\ spc[w] = "cashing"
    /\ cashouts' = [cashouts EXCEPT ![Head(unsettled[w])] = @ + 1]
    /\ \E success \in BOOLEAN :
          cashoutResult' = [cashoutResult EXCEPT ![w] =
                               IF success THEN "success" ELSE "failure"]
    /\ spc' = [spc EXCEPT ![w] = "recording"]
    /\ UNCHANGED <<partnerSettlements, unsettled, picked, settleRuns>>

\* partners.py lines 398-430: the outcome is written and committed; if the
\* commit raises, the except clause sets the status on the object and rolls
\* the session back, which leaves the row as last committed; then the next
\* row, or the return
record_settlement(w) ==
    /\ spc[w] = "recording"
    /\ \E committed \in BOOLEAN :
          partnerSettlements' =
              IF committed
              THEN [partnerSettlements EXCEPT ![Head(unsettled[w])].status =
                       IF cashoutResult[w] = "success" THEN "completed" ELSE "failed"]
              ELSE partnerSettlements
    /\ unsettled' = [unsettled EXCEPT ![w] = Tail(@)]
    /\ cashoutResult' = [cashoutResult EXCEPT ![w] = "none"]
    /\ spc' = [spc EXCEPT ![w] = IF Tail(unsettled[w]) = << >> THEN "idle" ELSE "marking"]
    /\ UNCHANGED <<picked, cashouts, settleRuns>>

PsIdle ==
    /\ spc = [w \in Workers |-> "idle"]
    /\ unsettled = [w \in Workers |-> << >>]
    /\ picked = [w \in Workers |-> {}]
    /\ cashoutResult = [w \in Workers |-> "none"]
    /\ cashouts = [s \in SettlementIds |-> 0]
    /\ settleRuns = 0

vars == <<gwVars, poVars, acctVars, feeVars, rcVars, lnVars, invVars, psVars>>

\* the pay endpoint alone: the payout tables stay as created
Init ==
    /\ GwInit
    /\ PoIdle
    /\ cycles = [c \in Cycles |-> NewCycle]
    /\ feeCall = NoFeeCall
    /\ LnIdle
    /\ InvIdle
    /\ PsIdle
    /\ RcIdle

Next ==
    \E h \in Handlers :
        \/ Begin(h) /\ UNCHANGED <<poVars, acctVars, feeVars, rcVars, lnVars, invVars, psVars>>
        \/ CommitPending(h) /\ UNCHANGED <<poVars, acctVars, feeVars, rcVars, lnVars, invVars, psVars>>
        \/ Submit(h) /\ UNCHANGED <<poVars, acctVars, feeVars, rcVars, lnVars, invVars, psVars>>
        \/ LndSuccess(h) /\ UNCHANGED <<poVars, acctVars, feeVars, rcVars, lnVars, invVars, psVars>>
        \/ LndDecline(h) /\ UNCHANGED <<poVars, acctVars, feeVars, rcVars, lnVars, invVars, psVars>>
        \/ DeclineHandler(h) /\ UNCHANGED <<poVars, acctVars, feeVars, rcVars, lnVars, invVars, psVars>>
        \/ LndError(h) /\ UNCHANGED <<poVars, acctVars, feeVars, rcVars, lnVars, invVars, psVars>>
        \/ Crash(h) /\ UNCHANGED <<poVars, acctVars, feeVars, rcVars, lnVars, invVars, psVars>>
        \/ Return(h) /\ UNCHANGED <<poVars, acctVars, feeVars, rcVars, lnVars, invVars, psVars>>

Spec == Init /\ [][Next]_vars

\* the payout alone: no pay_invoice call is made
InitPayout == GwInit /\ PoInit /\ feeCall = NoFeeCall /\ RcIdle /\ LnIdle /\ InvIdle /\ PsIdle

NextPayout ==
    \/ \E c \in Cycles : Contribute(c) /\ UNCHANGED <<gwVars, acctVars, feeVars, rcVars, lnVars, invVars, psVars>>
    \/ check_ready_cycles /\ UNCHANGED <<gwVars, acctVars, feeVars, rcVars, lnVars, invVars, psVars>>
    \/ process_ready_cycles /\ UNCHANGED <<gwVars, acctVars, feeVars, rcVars, lnVars, invVars, psVars>>
    \/ schedule_payout /\ UNCHANGED <<gwVars, acctVars, feeVars, rcVars, lnVars, invVars, psVars>>
    \/ \E w \in Workers :
          \/ run_scheduled_payout(w) /\ UNCHANGED <<gwVars, acctVars, feeVars, rcVars, lnVars, invVars, psVars>>
          \/ process_payout_endpoint(w) /\ UNCHANGED <<gwVars, acctVars, feeVars, rcVars, lnVars, invVars, psVars>>
          \/ send_payment(w) /\ UNCHANGED <<gwVars, acctVars, feeVars, rcVars, lnVars, invVars, psVars>>
          \/ record_payout(w) /\ UNCHANGED <<gwVars, acctVars, feeVars, rcVars, lnVars, invVars, psVars>>
          \/ fail_payout(w) /\ UNCHANGED <<gwVars, acctVars, feeVars, rcVars, lnVars, invVars, psVars>>
          \/ crash_payout(w) /\ UNCHANGED <<gwVars, acctVars, feeVars, rcVars, lnVars, invVars, psVars>>
          \/ finish_payout(w) /\ UNCHANGED <<gwVars, acctVars, feeVars, rcVars, lnVars, invVars, psVars>>
    \/ update_community_fund /\ UNCHANGED <<gwVars, feeVars, rcVars, lnVars, invVars, psVars>>

SpecPayout == InitPayout /\ [][NextPayout]_vars

\* the payout of a cycle of 1000 sats together with the distributions of
\* the community fund
InitFund ==
    /\ GwInit
    /\ PoIdle
    /\ cycles = [c \in Cycles |-> NewCycle]
    /\ feeCall = NoFeeCall
    /\ LnIdle
    /\ InvIdle
    /\ PsIdle
    /\ RcIdle

NextFund ==
    \/ NextPayout
    \/ \E sats_amount \in DistributionAmounts :
          create_fund_distribution(sats_amount) /\ UNCHANGED <<gwVars, feeVars, rcVars, lnVars, invVars, psVars>>
    \/ \E distribution_id \in 1..MaxDistributions :
          \/ approve_fund_distribution(distribution_id)
                /\ UNCHANGED <<gwVars, feeVars, rcVars, lnVars, invVars, psVars>>
          \/ execute_fund_distribution(distribution_id)
                /\ UNCHANGED <<gwVars, feeVars, rcVars, lnVars, invVars, psVars>>

SpecFund == InitFund /\ [][NextFund]_vars

\* the fee calculation alone
NextFee == calculate_fee /\ UNCHANGED <<gwVars, poVars, acctVars, rcVars, lnVars, invVars, psVars>>

\* a request has arrived and nothing else runs
InitFee ==
    /\ GwInit
    /\ PoIdle
    /\ cycles = [c \in Cycles |-> NewCycle]
    /\ feeCall \in FeeRequests
    /\ LnIdle
    /\ InvIdle
    /\ PsIdle
    /\ RcIdle

SpecFee == InitFee /\ [][NextFee]_vars

\* the receipts alone, under every configuration of the secrets
InitReceipt ==
    /\ GwInit
    /\ PoIdle
    /\ cycles = [c \in Cycles |-> NewCycle]
    /\ feeCall = NoFeeCall
    /\ LnIdle
    /\ InvIdle
    /\ PsIdle
    /\ secretsCache \in SecretConfigs
    /\ rcIssued = NoIssue
    /\ rcCheck = NoCheck
    /\ secretsBackend = "vault"
    /\ rotations = 0
    /\ rotatedSinceIssue = 0

NextReceipt ==
    \/ IssueReceipt /\ UNCHANGED <<gwVars, poVars, acctVars, feeVars, lnVars, invVars, psVars>>
    \/ CheckReceipt /\ UNCHANGED <<gwVars, poVars, acctVars, feeVars, lnVars, invVars, psVars>>

SpecReceipt == InitReceipt /\ [][NextReceipt]_vars

\* the versions `python receipt.py rotate <version>` is called with
RotatedVersions == {"v1", "v2"}

\* receipts under key rotation: the deployment starts with RECEIPT_HMAC_V1
\* alone, on either backend; keys are rotated before and after a receipt is
\* issued, until the receipt is checked
InitRotation ==
    /\ GwInit
    /\ PoIdle
    /\ cycles = [c \in Cycles |-> NewCycle]
    /\ feeCall = NoFeeCall
    /\ LnIdle
    /\ InvIdle
    /\ PsIdle
    /\ secretsCache = [n \in SecretNames |->
                          IF n = "RECEIPT_HMAC_V1" THEN "key_a" ELSE NoSecret]
    /\ rcIssued = NoIssue
    /\ rcCheck = NoCheck
    /\ secretsBackend \in Backends
    /\ rotations = 0
    /\ rotatedSinceIssue = 0

NextRotation ==
    \/ IssueReceipt /\ UNCHANGED <<gwVars, poVars, acctVars, feeVars, lnVars, invVars, psVars>>
    \/ \E new_version \in RotatedVersions :
          /\ rcCheck.kind = "none"
          /\ rotate_receipt_keys(new_version)
          /\ UNCHANGED <<gwVars, poVars, acctVars, feeVars, lnVars, invVars, psVars>>
    \/ CheckReceipt /\ UNCHANGED <<gwVars, poVars, acctVars, feeVars, lnVars, invVars, psVars>>

SpecRotation == InitRotation /\ [][NextRotation]_vars

\* batch receipts alone, under every configuration of the secrets
NextBatch ==
    \/ create_batch_receipt /\ UNCHANGED <<gwVars, poVars, acctVars, feeVars, lnVars, invVars, psVars>>
    \/ verify_batch_receipt /\ UNCHANGED <<gwVars, poVars, acctVars, feeVars, lnVars, invVars, psVars>>

SpecBatch == InitReceipt /\ [][NextBatch]_vars

\* the LND client alone: one call on every response the transport can give
InitLnd ==
    /\ GwInit
    /\ PoIdle
    /\ cycles = [c \in Cycles |-> NewCycle]
    /\ feeCall = NoFeeCall
    /\ RcIdle
    /\ lndCall \in LndCalls
    /\ lndResult = NoLndResult
    /\ lndRead = 0
    /\ InvIdle
    /\ PsIdle

NextLnd == LndClient_pay_invoice /\ UNCHANGED <<gwVars, poVars, acctVars, feeVars, rcVars, invVars, psVars>>

SpecLnd == InitLnd /\ [][NextLnd]_vars

\* the payout of a cycle of 1000 sats whose winner handed in an invoice
InitInvoice ==
    /\ GwInit
    /\ PoIdle
    /\ cycles = [c \in Cycles |-> NewCycle]
    /\ feeCall = NoFeeCall
    /\ RcIdle
    /\ LnIdle
    /\ invoiceSats \in [Cycles -> InvoiceAmounts]
    /\ PsIdle

SpecInvoice == InitInvoice /\ [][NextPayout]_vars

\* the settlement runs alone, over a table of pending settlements
InitSettle ==
    /\ GwInit
    /\ cycles = [c \in Cycles |-> NewCycle]
    /\ communityFund = NoFund
    /\ distributions = << >>
    /\ feeRecords = << >>
    /\ partnerSettlements \in
           {[s \in 1..n |-> PendingSettlement] : n \in SettlementIds}
    /\ payoutLogs = [c \in Cycles |-> [completed |-> 0, failed |-> 0]]
    /\ exchangeRateRows = 0
    /\ netPayments = [c \in Cycles |-> 0]
    /\ lostPayments = [c \in Cycles |-> 0]
    /\ taskQueue = EmptyQueue
    /\ wpc = [w \in Workers |-> "idle"]
    /\ run = [w \in Workers |-> NoRun]
    /\ wres = [w \in Workers |-> "none"]
    /\ queued = 0
    /\ directCalls = 0
    /\ crashes = 0
    /\ feeCall = NoFeeCall
    /\ RcIdle
    /\ LnIdle
    /\ InvIdle
    /\ PsIdle

\* everything the settlement runs leave alone
SettleFrame ==
    UNCHANGED <<gwVars, acctVars, feeVars, rcVars, lnVars, invVars, cycles, feeRecords,
                payoutLogs, exchangeRateRows, netPayments, lostPayments, taskQueue,
                wpc, run, wres, queued, directCalls, crashes>>

NextSettle ==
    \E w \in Workers :
        \/ settle_partner_settlements(w) /\ SettleFrame
        \/ mark_processing(w) /\ SettleFrame
        \/ cashout_xof(w) /\ SettleFrame
        \/ record_settlement(w) /\ SettleFrame

SpecSettle == InitSettle /\ [][NextSettle]_vars

TypeOK ==
    /\ pc \in [Handlers -> {"idle", "admitted", "committed", "inflight", "declined", "done"}]
    /\ \A k \in AllKeys : attempts[k].status \in {"absent", "pending", "success", "failed"}
    /\ started \in 0..MaxCalls
    /\ wpc \in [Workers -> {"idle", "sending", "returned", "raised", "done"}]
    /\ \A c \in Cycles : cycles[c].status \in {"collecting", "ready", "paid", "failed"}

(***************************************************************************)
(* Properties of the pay endpoint (checked under Spec)                     *)
(***************************************************************************)
\* the step in which handler h starts a pay_invoice call
BeginStep(h) == pc[h] = "idle" /\ pc'[h] # "idle"

\* handlers that have written (or are about to use) the row of key k
LiveCalls(k) ==
    {h \in Handlers : req[h].key = k /\ pc[h] \in {"admitted", "committed", "inflight", "declined"}}

\* C1: a call whose key has a success row answers success with the stored
\* preimage and fee_sat, marked cached, without a network submission and
\* without changing the row; and a fresh success stores exactly what it
\* answers, so the repeated call gets the identical result.
C1_CachedSuccess ==
    [][\A h \in Handlers :
        /\ (BeginStep(h) /\ attempts[req'[h].key].status = "success") =>
              /\ pc'[h] = "done"
              /\ result'[h] = [kind |-> "ok",
                               preimage |-> attempts[req'[h].key].preimage,
                               fee_sat |-> attempts[req'[h].key].fee_sat,
                               cached |-> TRUE]
              /\ attempts' = attempts
              /\ netSubmits' = netSubmits
        /\ (pc[h] = "inflight" /\ pc'[h] = "done" /\ result'[h].kind = "ok") =>
              /\ attempts'[req[h].key].status = "success"
              /\ attempts'[req[h].key].preimage = result'[h].preimage
              /\ attempts'[req[h].key].fee_sat = result'[h].fee_sat
      ]_vars

\* C1 witness: a second call with the key has been answered from the stored
\* row after a single network submission
C1_Witness ==
    \E h \in Handlers :
        /\ pc[h] = "done"
        /\ result[h].kind = "ok"
        /\ result[h].cached
        /\ result[h].preimage \in {r.preimage : r \in LndSuccessResults}
        /\ netSubmits[req[h].key] = 1

\* C2: no two network submissions are in flight for the same key
C2_SingleInFlight ==
    \A k \in AllKeys :
        Cardinality({h \in Handlers : pc[h] = "inflight" /\ req[h].key = k}) <= 1

\* C3: a row is never deleted, its status changes only absent->pending (the
\* insert), pending->success, pending->failed or failed->pending, and a
\* success row keeps its status and preimage
C3_StatusTransitions ==
    [][\A k \in AllKeys :
        LET old == attempts[k]
            new == attempts'[k]
        IN  /\ old.status # "absent" => new.status # "absent"
            /\ old.status # new.status =>
                  <<old.status, new.status>> \in
                     { <<"absent", "pending">>, <<"pending", "success">>,
                       <<"pending", "failed">>, <<"failed", "pending">> }
            /\ old.status = "success" =>
                  new.status = "success" /\ new.preimage = old.preimage
      ]_vars

\* C6: when the network call ends in a transport-level error the row of the
\* key is left pending
C6_TransportErrorKeepsPending ==
    [][\A h \in Handlers :
        (pc[h] = "inflight" /\ pc'[h] = "done" /\ result'[h].kind = "lnd502") =>
            attempts'[req[h].key].status = "pending"
      ]_vars

\* C8: a call whose key has a pending row is answered 409, with no network
\* submission and no change of the row
C8_PendingConflict ==
    [][\A h \in Handlers :
        (BeginStep(h) /\ attempts[req'[h].key].status = "pending") =>
            /\ pc'[h] = "done"
            /\ result'[h].kind = "conflict409"
            /\ attempts' = attempts
            /\ netSubmits' = netSubmits
      ]_vars

\* C8 witness: a call has been answered 409 while another call holds the key
C8_Witness ==
    \E h \in Handlers :
        /\ pc[h] = "done"
        /\ result[h].kind = "conflict409"
        /\ attempts[req[h].key].status = "pending"

\* C9: a call that finds no row or a failed row is admitted; the step that
\* admits it for the network commits the row as pending with the call's
\* invoice; and the network is only submitted to from that committed point
C9_PendingBeforeSubmit ==
    [][\A h \in Handlers :
        /\ (BeginStep(h) /\ attempts[req'[h].key].status \in {"absent", "failed"}) =>
              /\ pc'[h] = "admitted"
              /\ attempts' = attempts
              /\ netSubmits' = netSubmits
        /\ (pc[h] # "committed" /\ pc'[h] = "committed") =>
              /\ pc[h] = "admitted"
              /\ seen[h] \in {"absent", "failed"}
              /\ attempts'[req[h].key].status = "pending"
              /\ attempts'[req[h].key].invoice = req[h].invoice
              /\ netSubmits' = netSubmits
        /\ (netSubmits' # netSubmits \/ (pc[h] # "inflight" /\ pc'[h] = "inflight")) =>
              \E g \in Handlers :
                  /\ pc[g] = "committed"
                  /\ pc'[g] = "inflight"
                  /\ attempts[req[g].key].status # "absent"
                  /\ netSubmits' = [netSubmits EXCEPT ![req[g].key] = @ + 1]
      ]_vars

\* C9 witness: a retry of a failed key is in flight, its row refreshed with
\* the invoice of the retry
C9_Witness ==
    \E h \in Handlers :
        /\ pc[h] = "inflight"
        /\ seen[h] = "failed"
        /\ attempts[req[h].key].status = "pending"
        /\ attempts[req[h].key].invoice = req[h].invoice

\* C10: a key is never left unable to be submitted: whenever no call is at
\* work on a key, a new call with that key is not turned away as in progress
C10_PendingRetriable ==
    \A k \in AllKeys :
        LiveCalls(k) = {} => BeginOutcome(attempts[k].status) # "conflict"

\* C28: a pay_invoice call whose payment the network has declined ends
\* with the payment-failed answer (HTTP 400 with the network's reason), not
\* with the answer of an internal or transport error, and leaves the row
\* failed with the network's reason
C28_DeclineReported ==
    [][\A h \in Handlers :
        (pc[h] = "declined" /\ pc'[h] = "done") =>
            /\ result'[h].kind = "failed400"
            /\ attempts'[req[h].key].status = "failed"
            /\ attempts'[req[h].key].error_message = "reason"
      ]_vars

(***************************************************************************)
(* Properties of the payout (checked under SpecPayout)                     *)
(***************************************************************************)
\* C4: the network executes the payout payment of a cycle at most once
C4_PaidAtMostOnce ==
    \A c \in Cycles : netPayments[c] <= 1

\* C5: once a process_payout call has died after the network paid and before
\* its commit, a later call for the cycle does not go on to send the payment
\* again
C5_NoRepayAfterCrash ==
    [][\A w \in Workers :
        (/\ wpc[w] = "idle"
         /\ wpc'[w] # "idle"
         /\ run'[w].cycle_id \in Cycles
         /\ lostPayments[run'[w].cycle_id] > 0) => wpc'[w] # "sending"
      ]_vars

\* C7: when send_payment raises, process_payout leaves the status of the
\* cycle as it is (ready) and passes the error on
C7_RaiseKeepsReady ==
    [][\A w \in Workers :
        (wpc[w] = "raised" /\ wpc'[w] = "done") =>
            /\ cycles'[run[w].cycle_id].status = cycles[run[w].cycle_id].status
            /\ wres'[w] \in {"retry", "failed_final", "http400"}
      ]_vars

\* the fee_records rows of cycle c
FeeRecordsOf(c) == {i \in DOMAIN feeRecords : feeRecords[i].cycle_id = c}

\* C11: in every committed state the community fund balance holds the
\* community share of every FeeRecord, and every FeeRecord with a partner
\* share has its PartnerSettlement
C11_LedgerAtomic ==
    /\ communityFund.total_sats = SumCommunity(feeRecords)
    /\ Len(partnerSettlements) =
          Cardinality({i \in DOMAIN feeRecords : feeRecords[i].sats_to_partner > 0})

\* C12: a cycle is paid only if a FeeRecord of the cycle is committed
C12_PaidHasFeeRecord ==
    \A c \in Cycles : cycles[c].status = "paid" => FeeRecordsOf(c) # {}

\* C12 witness: a payout has committed: the cycle is paid and its FeeRecord
\* is there
C12_Witness ==
    \E c \in Cycles :
        /\ cycles[c].status = "paid"
        /\ FeeRecordsOf(c) # {}
        /\ netPayments[c] > 0

\* C13: a cycle has at most one FeeRecord
C13_OneFeeRecordPerCycle ==
    \A c \in Cycles : Cardinality(FeeRecordsOf(c)) <= 1

\* the delays of the retries 0, 1, 2 in seconds
BackoffSeconds == <<60, 120, 240>>

\* the message of the task the worker w is running
RunningTask(w) ==
    Task(run[w].cycle_id, run[w].group_verified, run[w].user_recurring,
         run[w].retries, run[w].countdown)

\* the step of worker w in which the attempt of task t raises, q being the
\* queue without t: attempts 1 to 3 queue the next one with its delay, the
\* fourth returns the failed result and queues nothing
RetryOrGiveUp(w, t, q) ==
    IF t.retries < 3
    THEN /\ wres'[w] = "retry"
         /\ taskQueue' = Enqueue(q, [t EXCEPT !.retries = t.retries + 1,
                                              !.countdown = BackoffSeconds[t.retries + 1]])
    ELSE /\ t.retries = 3
         /\ wres'[w] = "failed_final"
         /\ taskQueue' = q

\* C22: a run_scheduled_payout attempt that raises is queued again with
\* delay 60 * 2^n before retry n (n = 0, 1, 2); the attempt after the third
\* retry (the fourth attempt) ends the task with the failed result and
\* queues no further retry
C22_BackoffBoundedRetries ==
    [][\A w \in Workers :
        /\ (wpc[w] = "idle" /\ wpc'[w] = "done" /\ wres'[w] # "http400") =>
              \E t \in DOMAIN taskQueue : RetryOrGiveUp(w, t, Dequeue(taskQueue, t))
        /\ (wpc[w] = "raised" /\ wpc'[w] = "done" /\ run[w].mode = "task") =>
              RetryOrGiveUp(w, RunningTask(w), taskQueue)
      ]_vars

\* C22 witness: one task has gone through its four attempts and ended with
\* the failed result, no message left
C22_Witness ==
    /\ queued = 1
    /\ directCalls = 0
    /\ crashes = 0
    /\ taskQueue = EmptyQueue
    /\ \E w \in Workers : wpc[w] = "done" /\ wres[w] = "failed_final"

\* how many messages t the queue q holds
CountIn(q, t) == IF t \in DOMAIN q THEN q[t] ELSE 0

\* the cycles of the attempt that worker w ends in this step: the one of
\* the call it is in, or of the message it takes from the queue
AttemptCycles(w) ==
    IF wpc[w] = "idle"
    THEN {t.cycle_id : t \in {t \in DOMAIN taskQueue :
                                 CountIn(taskQueue', t) < CountIn(taskQueue, t)}}
    ELSE {run[w].cycle_id}

\* C23: when the last attempt of a run_scheduled_payout task has raised
\* and the task returns its failed result, a cycle that the attempt found
\* ready is failed
C23_ExhaustedCycleFailed ==
    [][\A w \in Workers :
        (wpc[w] # "done" /\ wpc'[w] = "done" /\ wres'[w] = "failed_final") =>
            \A c \in AttemptCycles(w) \cap Cycles :
                cycles[c].status = "ready" => cycles'[c].status = "failed"
      ]_vars

\* C24: when send_payment has returned a result that is not a success,
\* process_payout commits the cycle as failed with a failed PayoutLog and
\* writes no FeeRecord and no PartnerSettlement; and a cycle becomes paid
\* only in a call whose payment the network reported as succeeded
C24_DeclineFailsCycle ==
    [][/\ \A w \in Workers :
            (/\ wpc[w] = "returned"
             /\ wpc'[w] = "done"
             /\ run[w].payment_status # "SUCCEEDED") =>
                /\ cycles'[run[w].cycle_id].status = "failed"
                /\ payoutLogs'[run[w].cycle_id].failed = payoutLogs[run[w].cycle_id].failed + 1
                /\ feeRecords' = feeRecords
                /\ partnerSettlements' = partnerSettlements
       /\ \A c \in Cycles :
            (cycles[c].status # "paid" /\ cycles'[c].status = "paid") =>
                \E w \in Workers :
                    /\ wpc[w] = "returned"
                    /\ run[w].cycle_id = c
                    /\ run[w].payment_status = "SUCCEEDED"
      ]_vars

\* the cycle c is ready, has a paid transaction and a positive payout total
\* that its fee uses up, whatever the discounts
NetPayoutNotPositive(c) ==
    /\ cycles[c].status = "ready"
    /\ cycles[c].tx = "paid"
    /\ cycles[c].payout_total_sats > 0
    /\ \A f \in PayoutFlags :
          cycles[c].payout_total_sats
              - calculate_fee_for_payout(cycles[c].payout_total_sats,
                                         f.group_verified, f.user_recurring).sats_fee <= 0

\* C25: a run_scheduled_payout attempt for a ready cycle whose net payout
\* is not positive sends no payment, commits the cycle as failed, and is
\* not queued for a retry
C25_NetPayoutRejectionFails ==
    [][\A w \in Workers :
        (wpc[w] = "idle" /\ wpc'[w] # "idle") =>
            \A c \in AttemptCycles(w) \cap Cycles :
                NetPayoutNotPositive(c) =>
                    /\ wpc'[w] = "done"
                    /\ netPayments' = netPayments
                    /\ cycles'[c].status = "failed"
                    /\ wres'[w] # "retry"
      ]_vars

\* C26: a process_payout call goes on to send a payment only for a cycle
\* it finds ready and with a withdraw invoice; while no cycle is ready every
\* call is rejected with nothing sent and nothing written; while no cycle
\* has an invoice no call sends a payment; and the network is only paid by
\* a call that got that far
C26_PayoutOnlyWhenReady ==
    [][/\ \A w \in Workers :
            (wpc[w] = "idle" /\ wpc'[w] # "idle") =>
                /\ wpc'[w] = "sending" =>
                      /\ run'[w].cycle_id \in Cycles
                      /\ cycles[run'[w].cycle_id].status = "ready"
                      /\ cycles[run'[w].cycle_id].withdraw_invoice
                /\ (\A c \in Cycles : cycles[c].status # "ready") =>
                      /\ wpc'[w] = "done"
                      /\ wres'[w] \in {"retry", "failed_final", "http400"}
                      /\ UNCHANGED <<cycles, payoutLogs, feeRecords, partnerSettlements,
                                     exchangeRateRows, netPayments, communityFund>>
                /\ (\A c \in Cycles : ~cycles[c].withdraw_invoice) =>
                      /\ wpc'[w] = "done"
                      /\ netPayments' = netPayments
       /\ netPayments' # netPayments =>
            \E w \in Workers : wpc[w] = "sending" /\ wpc'[w] # "sending"
      ]_vars

\* C26 witness: the first attempt of a task has failed the cycle, and its
\* second attempt was rejected on the failed cycle: nothing more is logged
\* and nothing was sent
C26_Witness ==
    /\ queued = 1 /\ directCalls = 0 /\ crashes = 0
    /\ \E t \in DOMAIN taskQueue : t.retries = 2
    /\ \A c \in Cycles :
          /\ cycles[c].status = "failed"
          /\ payoutLogs[c].failed = 1
          /\ netPayments[c] = 0

\* C27: the status of a cycle changes only from collecting to ready and
\* from ready to paid or failed; a paid or failed cycle keeps its status
C27_StatusLifecycle ==
    [][\A c \in Cycles :
        cycles'[c].status # cycles[c].status =>
            <<cycles[c].status, cycles'[c].status>> \in
                { <<"collecting", "ready">>, <<"ready", "paid">>, <<"ready", "failed">> }
      ]_vars

\* the fund row exists and its balance is the community shares of all
\* FeeRecords less the amounts of the distributed FundDistributions
FundBalanced ==
    /\ communityFund.exists
    /\ communityFund.total_sats = SumCommunity(feeRecords) - DistributedSats

\* C29 (checked under SpecFund): the balance is the sum of the community
\* shares less the distributed amounts after every update_community_fund,
\* and every step (a payout commit, the execution of a distribution) that
\* starts from such a state ends in one
C29_FundBalancePreserved ==
    [][/\ (communityFund' # communityFund /\ distributions' = distributions) =>
            FundBalanced'
       /\ FundBalanced => FundBalanced'
      ]_vars

\* the process_payout call of worker w is about to end after a payment the
\* network reported as succeeded
PaymentSucceeded(w) ==
    wpc[w] = "returned" /\ run[w].payment_status = "SUCCEEDED"

\* C30: a payout whose payment succeeded adds exactly one PartnerSettlement,
\* pending and of the partner share, when that share is positive and none
\* when it is 0; a call that ends without a succeeded payment adds none
C30_OneSettlementPerPayout ==
    [][\A w \in Workers :
        (wpc[w] # "done" /\ wpc'[w] = "done") =>
            IF PaymentSucceeded(w)
            THEN LET share == run[w].fee_info.partner_reserved
                 IN  partnerSettlements' =
                        IF share > 0
                        THEN Append(partnerSettlements,
                                    [partner |-> "wave", sats_equivalent |-> share,
                                     status |-> "pending"])
                        ELSE partnerSettlements
            ELSE partnerSettlements' = partnerSettlements
      ]_vars

\* the distribution rows only move pending -> approved -> distributed, and
\* the balance is reduced by the amount of a row exactly in the step that
\* marks it distributed
DistributionSteps ==
    \A d \in DOMAIN distributions :
       distributions'[d].status # distributions[d].status =>
           \/ /\ distributions[d].status = "pending"
              /\ distributions'[d].status = "approved"
              /\ communityFund' = communityFund
           \/ /\ distributions[d].status = "approved"
              /\ distributions'[d].status = "distributed"
              /\ communityFund'.total_sats =
                     communityFund.total_sats - distributions[d].sats_amount

\* C38: the balance of the community fund is never negative, whatever the
\* order of payouts, balance updates and distribution requests, approvals
\* and executions; a distribution is approved only from pending, executed
\* only from approved, and deducted once.
C38_FundNeverNegative ==
    /\ [](communityFund.total_sats >= 0)
    /\ [][DistributionSteps]_vars

\* C35: the payment a payout submits is for the net payout: whenever the
\* network executes the payment of a process_payout call, the amount paid,
\* which is the amount of the invoice handed to send_payment, equals the
\* payout total less the fee of that call.
C35_NetAmountPaid ==
    [][\A w \in Workers :
         (/\ wpc[w] = "sending"
          /\ wpc'[w] # "sending"
          /\ netPayments'[run[w].cycle_id] > netPayments[run[w].cycle_id]) =>
             invoiceSats[run[w].cycle_id] = run[w].net_payout]_vars

(***************************************************************************)
(* Properties of the fee calculation (checked under SpecFee, and under     *)
(* SpecPayout for the stored FeeRecords)                                    *)
(***************************************************************************)
\* C14: for every payout_sats > 0 and every combination of the flags the
\* call returns, and its fee is the sum of its three shares, none negative
C14_SharesSumToFee ==
    /\ (feeCall.kind # "request" /\ feeCall.payout_sats > 0) => feeCall.kind = "ok"
    /\ feeCall.kind = "ok" =>
          LET f == feeCall.fee_info
          IN  /\ f.sats_fee = f.platform_share + f.community_share + f.partner_reserved
              /\ f.platform_share >= 0
              /\ f.community_share >= 0
              /\ f.partner_reserved >= 0

\* C14 witness: a fee of 3 sats (payout 300 at 1%) has been split with a
\* rounding remainder
C14_Witness ==
    /\ feeCall.kind = "ok"
    /\ feeCall.fee_info.sats_fee = 3
    /\ feeCall.fee_info.partner_reserved = 2

\* C16: the fee is the payout times the effective percent rounded down,
\* and exactly the minimum fee when that is below the minimum; a payout of
\* 50 at 1% has fee 1 and net payout 49
C16_MinimumFeeClamp ==
    feeCall.kind = "ok" =>
        LET pct == feeCall.fee_percentage
            exact == feeCall.payout_sats * pct.num
            \* floor(payout * percent) = q for the q with
            \* q * den <= payout * num < (q + 1) * den
            fee == feeCall.fee_info.sats_fee
        IN  /\ IF exact < MINIMUM_FEE_SATS * pct.den
               THEN fee = MINIMUM_FEE_SATS
               ELSE fee * pct.den <= exact /\ exact < (fee + 1) * pct.den
            /\ (/\ feeCall.payout_sats = 50
                /\ ~feeCall.group_verified
                /\ ~feeCall.user_recurring
                /\ feeCall.fee_percent_override = NoOverride)
                   => (fee = 1 /\ feeCall.net_payout = 49)

\* C16 witness: the payout of 50 sats at the base percent has been clamped
C16_Witness ==
    /\ feeCall.kind = "ok"
    /\ feeCall.payout_sats = 50
    /\ feeCall.fee_percent_override = NoOverride
    /\ feeCall.fee_info.sats_fee = MINIMUM_FEE_SATS
    /\ feeCall.net_payout = 49

\* C17: with one or both discounts the fee is at most the fee of the same
\* payout and base percent without discount
C17_DiscountNeverRaisesFee ==
    feeCall.kind = "ok" =>
        feeCall.fee_info.sats_fee <=
            calculate_fee_with_override(feeCall.payout_sats, FALSE, FALSE,
                                        feeCall.fee_percent_override).sats_fee

\* C17 witness: both discounts have made a fee smaller than the undiscounted
\* one
C17_Witness ==
    /\ feeCall.kind = "ok"
    /\ feeCall.group_verified
    /\ feeCall.user_recurring
    /\ feeCall.fee_info.sats_fee <
          calculate_fee_with_override(feeCall.payout_sats, FALSE, FALSE,
                                      feeCall.fee_percent_override).sats_fee

\* the request of 100,000 sats without discount or override
ScenarioA(call) ==
    /\ call.payout_sats = 100000
    /\ ~call.group_verified
    /\ ~call.user_recurring
    /\ call.fee_percent_override = NoOverride

\* C34: every answered fee is split as community = floor(fee * 20 / 100),
\* platform = floor(fee * 50 / 100) and partner = fee - platform - community,
\* so the rounding remainder is in the partner share; a payout of 100,000
\* sats without discount has fee 1,000, community 200, platform 500,
\* partner 300 and net payout 99,000.
C34_SplitRemainderToPartner ==
    feeCall.kind = "ok" =>
        LET info == feeCall.fee_info
        IN  /\ info.community_share = (info.sats_fee * 20) \div 100
            /\ info.platform_share = (info.sats_fee * 50) \div 100
            /\ info.partner_reserved =
                   info.sats_fee - info.platform_share - info.community_share
            /\ ScenarioA(feeCall) =>
                  /\ info = [sats_fee |-> 1000, platform_share |-> 500,
                             community_share |-> 200, partner_reserved |-> 300]
                  /\ feeCall.net_payout = 99000

C34_Witness ==
    /\ feeCall.kind = "ok"
    /\ ScenarioA(feeCall)
    /\ feeCall.fee_info.partner_reserved = 300

\* n is x * percent / 100 rounded down
IsFloorOfPercent(n, x, percent) ==
    n * 100 <= x * percent /\ x * percent < (n + 1) * 100

\* C15 as stated: in every FeeRecord the community and the partner share
\* are the rounded-down fractions of the fee and the platform share is the
\* remainder
C15_RemainderToPlatform ==
    \A i \in DOMAIN feeRecords :
        LET r == feeRecords[i]
        IN  /\ r.sats_fee = r.sats_to_platform + r.sats_to_community + r.sats_to_partner
            /\ IsFloorOfPercent(r.sats_to_community, r.sats_fee, COMMUNITY_FUND_SHARE)
            /\ IsFloorOfPercent(r.sats_to_partner, r.sats_fee, PARTNER_CASHOUT_SHARE)
            /\ r.sats_to_platform = r.sats_fee - r.sats_to_community - r.sats_to_partner

\* C15 amended: in every FeeRecord the shares sum exactly to the fee, the
\* community and the platform share are the rounded-down fractions of the
\* fee, and the partner share is the remainder
C15_RemainderToPartner ==
    \A i \in DOMAIN feeRecords :
        LET r == feeRecords[i]
        IN  /\ r.sats_fee = r.sats_to_platform + r.sats_to_community + r.sats_to_partner
            /\ IsFloorOfPercent(r.sats_to_community, r.sats_fee, COMMUNITY_FUND_SHARE)
            /\ IsFloorOfPercent(r.sats_to_platform, r.sats_fee,
                                100 - COMMUNITY_FUND_SHARE - PARTNER_CASHOUT_SHARE)
            /\ r.sats_to_partner = r.sats_fee - r.sats_to_platform - r.sats_to_community

\* C15 witness: a FeeRecord of 3 sats is committed whose partner share
\* holds the rounding remainder
C15_Witness ==
    \E i \in DOMAIN feeRecords :
        /\ feeRecords[i].sats_fee = 3
        /\ feeRecords[i].sats_to_platform = 1
        /\ feeRecords[i].sats_to_community = 0
        /\ feeRecords[i].sats_to_partner = 2

\* the cycle of the model is ready, has a paid transaction and a payout
\* total that is not positive
NonPositivePayoutDue ==
    \A c \in Cycles :
        /\ cycles[c].status = "ready"
        /\ cycles[c].tx = "paid"
        /\ cycles[c].payout_total_sats <= 0

\* C18: a process_payout call for a cycle whose payout total is not
\* positive ends at once with the error reported to its caller, and writes
\* nothing: the cycle, the PayoutLogs, FeeRecords and PartnerSettlements
\* stay as they are and no payment is sent
C18_NonPositivePayoutRejected ==
    [][\A w \in Workers :
        (wpc[w] = "idle" /\ wpc'[w] # "idle" /\ NonPositivePayoutDue) =>
            /\ wpc'[w] = "done"
            /\ wres'[w] \in {"retry", "failed_final", "http400"}
            /\ UNCHANGED <<cycles, payoutLogs, feeRecords, partnerSettlements,
                           exchangeRateRows, netPayments, communityFund>>
      ]_vars

\* C18 witness: a task for such a cycle has raised and is to be retried
C18_Witness ==
    /\ NonPositivePayoutDue
    /\ \E w \in Workers : wpc[w] = "done" /\ wres[w] = "retry"
    /\ \A c \in Cycles : payoutLogs[c].failed = 0 /\ netPayments[c] = 0

(***************************************************************************)
(* Properties of the receipts (checked under SpecReceipt)                  *)
(***************************************************************************)
\* the dict of a payload: its items without their order
Items(payload) == {payload[i] : i \in DOMAIN payload}

\* the value of the field key in a payload
FieldValue(payload, key) ==
    (CHOOSE item \in Items(payload) : item.key = key).value

\* two payloads with the same fields that differ in the value of one
DifferInOneField(p, q) ==
    Cardinality({key \in {"amount_sats", "id"} : FieldValue(p, key) # FieldValue(q, key)}) = 1

\* C19: a receipt made for a payload verifies against that payload (in
\* whatever order its fields are given), and does not verify against a
\* payload that differs from it in the value of one field
C19_ReceiptRoundTrip ==
    (/\ rcIssued.kind = "ok"
     /\ rcCheck.kind = "done"
     /\ rcCheck.receipt = rcIssued.receipt) =>
        /\ Items(rcCheck.payload) = Items(rcIssued.payload) => rcCheck.result = "true"
        /\ DifferInOneField(rcCheck.payload, rcIssued.payload) => rcCheck.result = "false"

\* C19 witness: a payload rebuilt with its fields in the other order has
\* been verified against the receipt issued for it
C19_Witness ==
    /\ rcIssued.kind = "ok"
    /\ rcCheck.kind = "done"
    /\ rcCheck.receipt = rcIssued.receipt
    /\ Items(rcCheck.payload) = Items(rcIssued.payload)
    /\ rcCheck.payload # rcIssued.payload
    /\ rcCheck.result = "true"

\* C20: verify_receipt never raises; it answers false for a receipt
\* without ':', for a value that is no string, and whenever the signature
\* is neither the one the key of the named version makes for the payload
\* nor the one the previous key makes (a key that is missing makes none)
C20_VerifyNeverRaises ==
    rcCheck.kind = "done" =>
        /\ rcCheck.result \in {"true", "false"}
        /\ rcCheck.result = "true" =>
              /\ rcCheck.receipt.colon
              /\ \E name \in {SecretName(rcCheck.receipt.version), "RECEIPT_HMAC_PREV"} :
                    /\ ~SecretMissing(name)
                    /\ rcCheck.receipt.signature.secret = secretsCache[name]
                    /\ rcCheck.receipt.signature.message = SortByKey(rcCheck.payload)

\* C20 witness: a receipt naming a version without a key, signed by a key
\* that is not the previous one, has been answered false while no previous
\* key is configured
C20_Witness ==
    /\ rcCheck.kind = "done"
    /\ rcCheck.result = "false"
    /\ rcCheck.receipt.colon
    /\ rcCheck.receipt.version = "v9"
    /\ rcCheck.receipt.signature.secret = "key_b"
    /\ SecretMissing("RECEIPT_HMAC_PREV")

(***************************************************************************)
(* Properties of the receipts under key rotation (checked under            *)
(* SpecRotation)                                                           *)
(***************************************************************************)
\* C21: verify_receipt accepts the signature of the named version's key or
\* of the one previous key; and a receipt that was issued before the latest
\* rotation (at most one rotation lies between its issue and its check)
\* verifies true against its unmodified payload
C21_RotationKeepsLastReceipts ==
    (/\ rcIssued.kind = "ok"
     /\ rcCheck.kind = "done"
     /\ rcCheck.receipt = rcIssued.receipt
     /\ rcCheck.payload = rcIssued.payload
     /\ rotatedSinceIssue <= 1) => rcCheck.result = "true"

(***************************************************************************)
(* Properties of the LND client (checked under SpecLnd)                    *)
(***************************************************************************)
LndDone == lndResult # NoLndResult

\* the index of the first SUCCEEDED or FAILED event of the stream, or 0
FirstTerminal(stream) ==
    IF \E i \in 1..Len(stream) : Terminal(stream[i])
        THEN CHOOSE i \in 1..Len(stream) :
                 Terminal(stream[i]) /\ \A j \in 1..(i - 1) : ~Terminal(stream[j])
        ELSE 0

\* the chunks the call has to read: up to the first terminal event
ReadUpTo(stream) ==
    IF FirstTerminal(stream) = 0 THEN Len(stream) ELSE FirstTerminal(stream)

\* the last parsed event among the first n chunks
RECURSIVE LastParsed(_, _)
LastParsed(stream, n) ==
    IF n = 0 THEN NoEvent
    ELSE IF Skipped(stream[n]) THEN LastParsed(stream, n - 1)
    ELSE stream[n]

LastEvent == LastParsed(lndCall.stream, ReadUpTo(lndCall.stream))

\* C31: the call reads the stream up to the first SUCCEEDED or FAILED event
\* and answers on the last parsed event only; when the stream ends and its
\* last event is an event without terminal status, the call returns neither
\* a success nor a decline ({success: false}).
C31_NonTerminalInconclusive ==
    (LndDone /\ lndCall.transport = "eof") =>
        /\ lndRead = ReadUpTo(lndCall.stream)
        /\ lndResult.kind = "return" => lndResult.raw_event = LastEvent
        /\ (LastEvent.kind = "dict" /\ ~Terminal(LastEvent)) =>
              lndResult.kind # "return"

\* C32: when the response ends and no chunk of it was parsed as an event
\* (no chunk, blank chunks, chunks that are not JSON), the call raises
\* LndClientError "No response events from LND router" and returns nothing.
C32_NoEventsRaises ==
    (/\ LndDone
     /\ lndCall.transport = "eof"
     /\ \A i \in 1..Len(lndCall.stream) : Skipped(lndCall.stream[i])) =>
        lndResult = LndRaise("No response events from LND router")

C32_Witness ==
    /\ LndDone
    /\ lndCall.transport = "eof"
    /\ Len(lndCall.stream) = MaxChunks
    /\ lndCall.stream[1].kind = "blank"
    /\ lndCall.stream[2].kind = "garbage"
    /\ lndResult.kind = "raise"

\* C33: a connection error, a status other than 200 and a reset or timeout
\* before any terminal event are raised as LndClientError and never returned
\* as {success: false}; a stream whose terminal event is FAILED is returned
\* as {success: false, error: reason} and never raised.
C33_TransportVsDecline ==
    LndDone =>
        /\ (\/ lndCall.transport \in {"connection_error", "status_500"}
            \/ /\ lndCall.transport \in {"reset", "timeout"}
               /\ FirstTerminal(lndCall.stream) = 0) =>
              /\ lndResult.kind = "raise"
              /\ lndResult.exc = "LndClientError"
        /\ (/\ lndCall.transport \in {"eof", "reset", "timeout"}
            /\ LastEvent.status = "FAILED") =>
              /\ lndResult.kind = "return"
              /\ lndResult.success = FALSE
              /\ lndResult.error = FailureReason(LastEvent)

\* C36: the call returns success only when the last event it read has status
\* SUCCEEDED, whatever preimage or failure the event carries.
C36_SuccessOnlyIfSucceeded ==
    (LndDone /\ lndResult.kind = "return" /\ lndResult.success) =>
        LastEvent.status = "SUCCEEDED"


(***************************************************************************)
(* Properties of the batch receipts (checked under SpecBatch)              *)
(***************************************************************************)
\* the operations of a batch payload
OperationsOf(payload) == payload[2].value.text

\* C37: verify_batch_receipt(operations, create_batch_receipt(operations))
\* is true for every list of operations: the receipt a batch was issued
\* verifies against the same operations.
C37_BatchRoundTrip ==
    (/\ rcIssued.kind = "ok"
     /\ rcCheck.kind = "done"
     /\ rcCheck.receipt = rcIssued.receipt
     /\ OperationsOf(rcCheck.payload) = OperationsOf(rcIssued.payload)) =>
        rcCheck.result = "true"

(***************************************************************************)
(* Properties of the partner settlements (checked under SpecSettle)        *)
(***************************************************************************)
\* a row only moves pending -> processing -> completed or failed
SettlementSteps ==
    \A s \in DOMAIN partnerSettlements :
       partnerSettlements'[s].status # partnerSettlements[s].status =>
           \/ /\ partnerSettlements[s].status = "pending"
              /\ partnerSettlements'[s].status = "processing"
           \/ /\ partnerSettlements[s].status = "processing"
              /\ partnerSettlements'[s].status \in {"completed", "failed"}

\* when a run returns, none of the rows it picked up is processing
NothingLeftProcessing ==
    \A w \in Workers :
       (spc[w] = "recording" /\ spc'[w] = "idle") =>
           \A s \in picked[w] : partnerSettlements'[s].status # "processing"

\* C39: whatever the interleaving of the settlement runs, cashout_xof is
\* called at most once for each settlement, a settlement only moves
\* pending -> processing -> completed or failed, and the settlements a run
\* picked up are not processing when the run returns.
C39_SettledAtMostOnce ==
    /\ [](\A s \in SettlementIds : cashouts[s] <= 1)
    /\ [][SettlementSteps]_vars
    /\ [][NothingLeftProcessing]_vars

====
